---- MODULE Spec2Model ----
(***************************************************************************)
(* A model of the precedence engine of ortools/sat/precedences.cc:         *)
(* PrecedencesPropagator (AddArc, Propagate, Untrail, the Bellman-Ford-    *)
(* Tarjan propagation with positive cycle detection, the propagation of    *)
(* the presence literals of the optional arcs), seen through the Boolean   *)
(* trail and the integer trail it is driven by.                            *)
(*                                                                         *)
(* IntegerVariable and Literal are the integer handles of the source: a    *)
(* variable v and its negation are 2i and 2i+1, LowerBound(2i+1) is        *)
(* -UpperBound(2i).  Arc indices are positions in arcs_ (from 1), and -1   *)
(* is "no arc", "no variable", "no literal" as in the source.  The         *)
(* per-variable vectors of the source are resized on demand by             *)
(* AdjustSizeFor; here they are total over the variables, a variable the   *)
(* source has not sized yet being one with empty lists.                    *)
(***************************************************************************)
EXTENDS Integers, Sequences, FiniteSets, TLC

\* ------------------------------------------------------------------ bounds
\* Positive integer variables of the model: 0, 2, 4, 6 and their negations.
NumPositiveVars == 5
\* Initial domains are subsets of 0..MaxValue.
MaxValue == 6
\* Boolean variables: literals 0..2*NumBooleans-1.
NumBooleans == 2
\* AddArc calls that create arcs.
MaxArcCalls == 3
\* Lower bound changes made by the rest of the solver.
MaxBoundChanges == 1
\* PrecedenceRelations::Add calls before the store is full.
MaxAdds == 5

\* Proto variables of the search model.
NumProtoVars == 4
\* The values of the encoded proto variables are in 0..ValueSpan.
ValueSpan == 9
\* The largest search_randomization_tolerance.
MaxTolerance == 1
\* The largest num_workers and min_num_lns_workers.
MaxWorkers == 3
MaxLnsWorkers == 1

kNoIntegerVariable == -1
kNoLiteralIndex == -1
kNoArcIndex == -1

IntegerVariables == 0..(2 * NumPositiveVars - 1)
Literals == 0..(2 * NumBooleans - 1)

NegationOf(v) == IF v % 2 = 0 THEN v + 1 ELSE v - 1
PositiveVariable(v) == v - (v % 2)
Negated(l) == IF l % 2 = 0 THEN l + 1 ELSE l - 1

\* ----------------------------------------------------------------- helpers
Range(seq) == {seq[i] : i \in 1..Len(seq)}
SetMin(S) == CHOOSE x \in S : \A y \in S : x <= y
SetMax(S) == CHOOSE x \in S : \A y \in S : x >= y
PopBack(seq) == SubSeq(seq, 1, Len(seq) - 1)
\* std::find: the first position of x in seq, 0 when absent.
IndexOf(seq, x) == IF x \in Range(seq) THEN SetMin({i \in 1..Len(seq) : seq[i] = x}) ELSE 0
RemoveAt(seq, i) == SubSeq(seq, 1, i - 1) \o SubSeq(seq, i + 1, Len(seq))
\* gtl::STLSortAndRemoveDuplicates on a vector of integer handles.
RECURSIVE SortedSeqOfSet(_)
SortedSeqOfSet(S) == IF S = {} THEN << >> ELSE <<SetMin(S)>> \o SortedSeqOfSet(S \ {SetMin(S)})
STLSortAndRemoveDuplicates(seq) == SortedSeqOfSet(Range(seq))
\* SparseBitset::Set: PositionsSetAtLeastOnce() lists the bits in the order
\* they were first set.
SetBit(bits, v) == IF v \in Range(bits) THEN bits ELSE Append(bits, v)

VARIABLES
  \* integer trail and Boolean trail
  current_bound,            \* IntegerTrail: lower bound of every variable
  domains_,                 \* IntegerTrail: initial domain of every variable
  is_ignored_literals_,     \* IntegerTrail: is-ignored literal of the optional variables
  model,                    \* the model loaded: what the solver does on it
  trail,                    \* Trail: the assigned literals, in order
  decision_starts,          \* Trail: trail size at which each decision level began
  saved_bounds,             \* IntegerTrail: bounds saved at each decision
  \* PrecedencesPropagator
  arcs_, potential_arcs_, impacted_arcs_, impacted_potential_arcs_,
  literal_to_new_impacted_arcs_, arc_counts_, conditional_relations_,
  modified_vars_, propagation_trail_index_,
  bf_queue_, bf_in_queue_, bf_parent_arc_of_, bf_can_be_skipped_,
  \* PrecedenceRelations
  graph_,                   \* util::StaticGraph: the arcs [tail, head], by arc index
  arc_offset_,              \* the offset of every arc
  is_built_, is_dag_, topological_order_,
  all_relations_,           \* (a, b) -> offset
  output,                   \* the caller's vector of FullIntegerPrecedence
  \* PrecedencesPropagator::ComputePrecedences
  var_to_degree_, var_to_last_index_,
  output_precedences,       \* the caller's vector of IntegerPrecedences
  \* observation
  last_call,                \* the last operation and what it returned
  check_failed,             \* the CHECK that aborted the process, "" while it runs
  num_arc_calls,            \* AddArc calls that created arcs so far
  num_bound_changes,        \* external lower bound changes so far
  index_history,            \* arc_counts_/impacted_arcs_ when propagation_trail_index_ last had each value
  external_path,            \* the external assignments and bound changes in effect
  replay_memo,              \* bounds reached by an earlier successful Propagate
  \* search strategies
  cp_model_proto,           \* CpModelProto: search_strategy, objective, constraints
  parameters,               \* SatParameters of the model
  view,                     \* what CpModelView reads of every proto variable
  decision,                 \* the last BooleanOrIntegerLiteral a closure returned
  heuristics,               \* the chain ConstructFixedSearchStrategy built
  result                    \* the vector GetDiverseSetOfParameters returned

trail_vars == <<current_bound, domains_, is_ignored_literals_, model, trail, decision_starts, saved_bounds>>
propagator_vars == <<arcs_, potential_arcs_, impacted_arcs_, impacted_potential_arcs_,
                     literal_to_new_impacted_arcs_, arc_counts_, conditional_relations_,
                     modified_vars_, propagation_trail_index_,
                     bf_queue_, bf_in_queue_, bf_parent_arc_of_, bf_can_be_skipped_>>
relations_vars == <<graph_, arc_offset_, is_built_, is_dag_, topological_order_, all_relations_,
                    output>>
precedences_vars == <<var_to_degree_, var_to_last_index_, output_precedences>>
observer_vars == <<last_call, check_failed, num_arc_calls, num_bound_changes, index_history,
                   external_path, replay_memo>>
search_vars == <<cp_model_proto, parameters, view, decision, heuristics, result>>
vars == <<trail_vars, propagator_vars, relations_vars, precedences_vars, observer_vars,
          search_vars>>

\* --------------------------------------------------------- trail interface
\* The propagator's operators work on a record of the state they read and
\* write: the propagator's members, the two trails, and what the call
\* returned.
LiteralIsTrue(s, l) == l \in Range(s.trail)
LiteralIsFalse(s, l) == Negated(l) \in Range(s.trail)
LiteralIsAssigned(s, l) == LiteralIsTrue(s, l) \/ LiteralIsFalse(s, l)
CurrentDecisionLevel == Len(decision_starts)

LowerBound(s, v) == s.current_bound[v]
UpperBound(s, v) == -s.current_bound[NegationOf(v)]
LevelZeroLowerBound(v) == IF saved_bounds = << >> THEN current_bound[v] ELSE saved_bounds[1][v]
LevelZeroUpperBound(v) == -LevelZeroLowerBound(NegationOf(v))
\* An IntegerLiteral var >= bound.
GreaterOrEqual(v, bound) == [var |-> v, bound |-> bound]
LowerBoundAsLiteral(s, v) == GreaterOrEqual(v, LowerBound(s, v))
UpperBoundAsLiteral(s, v) == GreaterOrEqual(NegationOf(v), -UpperBound(s, v))

IsOptional(v) == is_ignored_literals_[v] # kNoLiteralIndex
IsIgnoredLiteral(v) == is_ignored_literals_[v]
IsCurrentlyIgnored(s, v) == IsOptional(v) /\ LiteralIsTrue(s, IsIgnoredLiteral(v))

NoConflict == [kind |-> "none", literal_reason |-> << >>, integer_reason |-> << >>, sum |-> 0]

\* IntegerTrail::ReportConflict: records the reason, returns false.
ReportConflict(s, kind, literal_reason, integer_reason, sum) ==
  [s EXCEPT !.ret = FALSE,
            !.conflict = [kind |-> kind, literal_reason |-> literal_reason,
                          integer_reason |-> integer_reason, sum |-> sum]]

\* IntegerTrail::EnqueueLiteral: the literal goes on the Boolean trail at the
\* current decision level.
EnqueueLiteral(s, l, literal_reason, integer_reason) ==
  [s EXCEPT !.trail = Append(@, l),
            !.enq_lits = Append(@, [literal |-> l, literal_reason |-> literal_reason,
                                    integer_reason |-> integer_reason])]

\* IntegerTrail::Enqueue(var >= bound): nothing for an ignored variable or a
\* bound that is not better; a bound in a hole of the domain moves up to the
\* next value of the domain; crossing the upper bound is a conflict, or for
\* an optional variable the enqueue of its is-ignored literal; otherwise the
\* bound is stored and the watchers (modified_vars_) are told.
Enqueue(s, v, bound, literal_reason, integer_reason) ==
  IF IsCurrentlyIgnored(s, v) THEN s
  ELSE IF bound <= LowerBound(s, v) THEN s
  ELSE LET above == {x \in domains_[v] : x >= bound} IN
    IF above = {} \/ SetMin(above) > UpperBound(s, v)
    THEN IF ~IsOptional(v) \/ LiteralIsFalse(s, IsIgnoredLiteral(v))
         THEN ReportConflict(s, "enqueue", literal_reason, integer_reason, 0)
         ELSE EnqueueLiteral(s, IsIgnoredLiteral(v), literal_reason, integer_reason)
    ELSE [s EXCEPT !.current_bound[v] = SetMin(above),
                   !.modified_vars_ = SetBit(@, v),
                   !.enq_bounds = Append(@, GreaterOrEqual(v, SetMin(above)))]

\* ------------------------------------------------------------- the arcs
\* ArcInfo: tail_var + offset + lb(offset_var) <= head_var when all the
\* presence literals are true.
ArcInfo(tail, head, offset, offset_var, presence_literals) ==
  [tail_var |-> tail, head_var |-> head, offset |-> offset, offset_var |-> offset_var,
   presence_literals |-> presence_literals, is_marked |-> FALSE]

ArcOffset(s, arc) ==
  arc.offset + (IF arc.offset_var = kNoIntegerVariable THEN 0 ELSE LowerBound(s, arc.offset_var))

AppendLowerBoundReasonIfValid(s, v, reason) ==
  IF v # kNoIntegerVariable THEN Append(reason, LowerBoundAsLiteral(s, v)) ELSE reason

\* The negations of the presence literals of an arc.
NegatedPresence(arc) == [i \in 1..Len(arc.presence_literals) |-> Negated(arc.presence_literals[i])]

\* A CHECK of the source that fails aborts the process.
CheckFailure(s, what) == [s EXCEPT !.ret = FALSE, !.failed_check = what]

\* ------------------------------------------------- conditional relations
\* conditional_relations_ maps (tail, head) to (literal, offset); insert()
\* leaves an entry that is already there.
AddToConditionalRelations(s, arc) ==
  IF Len(arc.presence_literals) # 1 THEN s
  ELSE IF arc.offset_var # kNoIntegerVariable THEN s
  ELSE LET key == <<arc.tail_var, arc.head_var>> IN
    IF key \in DOMAIN s.conditional_relations_ THEN s
    ELSE [s EXCEPT !.conditional_relations_ =
            @ @@ (key :> [literal |-> arc.presence_literals[1], offset |-> ArcOffset(s, arc)])]

\* A removal that erases the entry of the key whatever its literal.
RemoveFromConditionalRelationsOfAnyLiteral(s, arc) ==
  IF Len(arc.presence_literals) # 1 THEN s
  ELSE IF arc.offset_var # kNoIntegerVariable THEN s
  ELSE LET key == <<arc.tail_var, arc.head_var>> IN
    IF key \notin DOMAIN s.conditional_relations_ THEN s
    ELSE [s EXCEPT !.conditional_relations_ = [k \in (DOMAIN @) \ {key} |-> @[k]]]

RemoveFromConditionalRelations(s, arc) ==
  IF Len(arc.presence_literals) # 1 THEN s
  ELSE IF arc.offset_var # kNoIntegerVariable THEN s
  ELSE LET key == <<arc.tail_var, arc.head_var>> IN
    IF key \notin DOMAIN s.conditional_relations_ THEN s
    ELSE IF s.conditional_relations_[key].literal # arc.presence_literals[1] THEN s
    ELSE [s EXCEPT !.conditional_relations_ = [k \in (DOMAIN @) \ {key} |-> @[k]]]

\* ------------------------------------------------------ EnqueueAndCheck
\* RelaxLinearReason belongs to the integer trail; the reason is kept as it
\* is before the relaxation.
\* What the observer keeps of a push above the upper bound of its head.
Overflow(s, arc_index, new_head_lb) ==
  [arc |-> arc_index, head |-> s.arcs_[arc_index].head_var, bound |-> new_head_lb,
   upper |-> UpperBound(s, s.arcs_[arc_index].head_var),
   optional |-> IsOptional(s.arcs_[arc_index].head_var),
   literal |-> IsIgnoredLiteral(s.arcs_[arc_index].head_var),
   literal_false |-> /\ IsOptional(s.arcs_[arc_index].head_var)
                     /\ LiteralIsFalse(s, IsIgnoredLiteral(s.arcs_[arc_index].head_var))]

\* An EnqueueAndCheck that enqueues the is-ignored literal of an optional
\* head without looking at its value.
EnqueueAndCheckBlindly(s, arc_index, new_head_lb) ==
  LET arc == s.arcs_[arc_index]
      literal_reason == NegatedPresence(arc)
      integer_reason ==
        AppendLowerBoundReasonIfValid(s, arc.offset_var, <<LowerBoundAsLiteral(s, arc.tail_var)>>)
      logged == [s EXCEPT !.overflows = Append(@, Overflow(s, arc_index, new_head_lb))]
  IN IF new_head_lb > UpperBound(s, arc.head_var)
     THEN IF ~IsOptional(arc.head_var)
          THEN ReportConflict(logged, "upper_bound", literal_reason,
                              Append(integer_reason, UpperBoundAsLiteral(s, arc.head_var)), 0)
          ELSE EnqueueLiteral(logged, IsIgnoredLiteral(arc.head_var), literal_reason,
                              Append(integer_reason, UpperBoundAsLiteral(s, arc.head_var)))
     ELSE Enqueue(s, arc.head_var, new_head_lb, literal_reason, integer_reason)

EnqueueAndCheck(s, arc_index, new_head_lb) ==
  LET arc == s.arcs_[arc_index]
      literal_reason == NegatedPresence(arc)
      integer_reason ==
        AppendLowerBoundReasonIfValid(s, arc.offset_var, <<LowerBoundAsLiteral(s, arc.tail_var)>>)
      logged == [s EXCEPT !.overflows = Append(@, Overflow(s, arc_index, new_head_lb))]
  IN IF new_head_lb > UpperBound(s, arc.head_var)
     THEN LET linear_reason == Append(integer_reason, UpperBoundAsLiteral(s, arc.head_var))
              l == IsIgnoredLiteral(arc.head_var)
          IN IF ~IsOptional(arc.head_var)
             THEN ReportConflict(logged, "upper_bound", literal_reason, linear_reason, 0)
             ELSE IF IsCurrentlyIgnored(s, arc.head_var)
             THEN CheckFailure(s, "EnqueueAndCheck: !IsCurrentlyIgnored(arc.head_var)")
             ELSE IF LiteralIsFalse(s, l)
             THEN ReportConflict(logged, "upper_bound", Append(literal_reason, l), linear_reason, 0)
             ELSE EnqueueLiteral(logged, l, literal_reason, linear_reason)
     ELSE Enqueue(s, arc.head_var, new_head_lb, literal_reason, integer_reason)

\* --------------------------------------------- Propagate: the trail loop
\* First pass over the arcs watched by a newly true literal: the counts go
\* down and the arcs that reach 0 are installed.
RECURSIVE ActivateArcs(_, _, _)
ActivateArcs(s, watched, i) ==
  IF i > Len(watched) THEN s
  ELSE LET arc_index == watched[i]
           arc == s.arcs_[arc_index]
           s1 == [s EXCEPT !.arc_counts_[arc_index] = @ - 1]
       IN IF s1.arc_counts_[arc_index] = 0
          THEN ActivateArcs([AddToConditionalRelations(s1, arc)
                               EXCEPT !.impacted_arcs_[arc.tail_var] = Append(@, arc_index)],
                            watched, i + 1)
          ELSE ActivateArcs(s1, watched, i + 1)

\* Second pass: each arc that is now active is checked for a push.
RECURSIVE PushActivatedArcs(_, _, _)
PushActivatedArcs(s, watched, i) ==
  IF ~s.ret \/ i > Len(watched) THEN s
  ELSE LET arc_index == watched[i]
           arc == s.arcs_[arc_index]
           new_head_lb == LowerBound(s, arc.tail_var) + ArcOffset(s, arc)
       IN IF s.arc_counts_[arc_index] > 0 THEN PushActivatedArcs(s, watched, i + 1)
          ELSE IF IsCurrentlyIgnored(s, arc.head_var) THEN PushActivatedArcs(s, watched, i + 1)
          ELSE IF new_head_lb > LowerBound(s, arc.head_var)
          THEN PushActivatedArcs(EnqueueAndCheck(s, arc_index, new_head_lb), watched, i + 1)
          ELSE PushActivatedArcs(s, watched, i + 1)

IndexSnapshot(s) == [valid |-> TRUE, arc_counts_ |-> s.arc_counts_, impacted_arcs_ |-> s.impacted_arcs_]
NoSnapshot == [valid |-> FALSE, arc_counts_ |-> << >>, impacted_arcs_ |-> << >>]

\* A single pass that pushes each arc right after its activation and stops
\* at the first conflict, with the arcs after it not yet decremented.
RECURSIVE ActivateAndPush(_, _, _)
ActivateAndPush(s, watched, i) ==
  IF ~s.ret \/ i > Len(watched) THEN s
  ELSE LET s1 == ActivateArcs(s, <<watched[i]>>, 1)
       IN ActivateAndPush(PushActivatedArcs(s1, <<watched[i]>>, 1), watched, i + 1)

RECURSIVE ConsumeTrailInOnePass(_)
ConsumeTrailInOnePass(s) ==
  IF ~s.ret \/ s.propagation_trail_index_ >= Len(s.trail) THEN s
  ELSE LET literal == s.trail[s.propagation_trail_index_ + 1]
           watched == s.literal_to_new_impacted_arcs_[literal]
           s1 == [s EXCEPT !.propagation_trail_index_ = @ + 1,
                           !.consuming = s.propagation_trail_index_ + 1]
           s2 == ActivateAndPush(s1, watched, 1)
       IN ConsumeTrailInOnePass(
            [s2 EXCEPT !.index_history[s1.propagation_trail_index_] = IndexSnapshot(s2)])

\* while (propagation_trail_index_ < trail_->Index()): the trail may grow
\* while it is consumed (EnqueueAndCheck can enqueue an is-ignored literal).
RECURSIVE ConsumeTrail(_)
ConsumeTrail(s) ==
  IF ~s.ret \/ s.propagation_trail_index_ >= Len(s.trail) THEN s
  ELSE LET literal == s.trail[s.propagation_trail_index_ + 1]
           watched == s.literal_to_new_impacted_arcs_[literal]
           s1 == ActivateArcs([s EXCEPT !.propagation_trail_index_ = @ + 1,
                                        !.consuming = s.propagation_trail_index_ + 1],
                              watched, 1)
           s2 == [s1 EXCEPT !.index_history[s1.propagation_trail_index_] = IndexSnapshot(s1)]
       IN ConsumeTrail(PushActivatedArcs(s2, watched, 1))

\* ---------------------------------------------------- Bellman-Ford-Tarjan
RECURSIVE FillQueue(_, _, _)
FillQueue(s, positions, i) ==
  IF i > Len(positions) THEN s
  ELSE FillQueue([s EXCEPT !.bf_queue_ = Append(@, positions[i]),
                           !.bf_in_queue_[positions[i]] = TRUE], positions, i + 1)

InitializeBFQueueWithModifiedNodes(s) ==
  FillQueue([s EXCEPT !.bf_in_queue_ = [v \in IntegerVariables |->
                                          IF v \in Range(s.bf_queue_) THEN FALSE ELSE @[v]],
                      !.bf_queue_ = << >>],
            s.modified_vars_, 1)

RECURSIVE CleanUpFrom(_, _)
CleanUpFrom(s, i) ==
  IF i > Len(s.modified_vars_) THEN s
  ELSE LET v == s.modified_vars_[i]
           parent_arc_index == s.bf_parent_arc_of_[v]
       IN IF parent_arc_index # kNoArcIndex
          THEN CleanUpFrom([s EXCEPT !.arcs_[parent_arc_index].is_marked = FALSE,
                                     !.bf_parent_arc_of_[v] = kNoArcIndex,
                                     !.bf_can_be_skipped_[v] = FALSE], i + 1)
          ELSE CleanUpFrom(s, i + 1)

\* A cleanup that leaves can_be_skipped as it is.
CleanUpParentsOnly(s) ==
  [CleanUpFrom(s, 1) EXCEPT !.bf_can_be_skipped_ = s.bf_can_be_skipped_]

CleanUpMarkedArcsAndParents(s) == CleanUpFrom(s, 1)

\* The walk of DisassembleSubtree: tmp_vector_ is the stack, tail the node
\* popped last and i the position reached in impacted_arcs_[tail].
RECURSIVE DisassembleWalk(_, _, _, _, _)
DisassembleWalk(s, tmp_vector_, tail, i, target) ==
  IF i > Len(s.impacted_arcs_[tail])
  THEN IF tmp_vector_ = << >> THEN [state |-> s, found |-> FALSE]
       ELSE DisassembleWalk(s, PopBack(tmp_vector_), tmp_vector_[Len(tmp_vector_)], 1, target)
  ELSE LET arc_index == s.impacted_arcs_[tail][i]
           arc == s.arcs_[arc_index]
           unmarked == [s EXCEPT !.arcs_[arc_index].is_marked = FALSE]
       IN IF ~arc.is_marked THEN DisassembleWalk(s, tmp_vector_, tail, i + 1, target)
          ELSE IF arc.head_var = target THEN [state |-> unmarked, found |-> TRUE]
          ELSE DisassembleWalk([unmarked EXCEPT !.bf_can_be_skipped_[arc.head_var] = TRUE],
                               Append(tmp_vector_, arc.head_var), tail, i + 1, target)

DisassembleSubtree(s, source, target) == DisassembleWalk(s, << >>, source, 1, target)

\* The arcs of the cycle through first_arc, following bf_parent_arc_of_.
RECURSIVE ArcsOnCycle(_, _, _, _)
ArcsOnCycle(s, first_arc_head, arc_index, arc_on_cycle) ==
  IF Len(arc_on_cycle) > Cardinality(IntegerVariables)
  THEN [arcs |-> arc_on_cycle, failed_check |-> ""]
  ELSE LET arc == s.arcs_[arc_index]
           on_cycle == Append(arc_on_cycle, arc_index)
       IN IF arc.tail_var = first_arc_head THEN [arcs |-> on_cycle, failed_check |-> ""]
          ELSE IF s.bf_parent_arc_of_[arc.tail_var] = kNoArcIndex
          THEN [arcs |-> on_cycle, failed_check |-> "AnalyzePositiveCycle: arc_index != -1"]
          ELSE ArcsOnCycle(s, first_arc_head, s.bf_parent_arc_of_[arc.tail_var], on_cycle)

RECURSIVE CycleReason(_, _, _, _)
CycleReason(s, arc_on_cycle, i, acc) ==
  IF i > Len(arc_on_cycle) THEN acc
  ELSE LET arc == s.arcs_[arc_on_cycle[i]] IN
    CycleReason(s, arc_on_cycle, i + 1,
      [acc EXCEPT !.sum = @ + ArcOffset(s, arc),
                  !.integer_reason = AppendLowerBoundReasonIfValid(s, arc.offset_var, @),
                  !.literal_reason = @ \o NegatedPresence(arc),
                  !.must_be_all_true = IF IsOptional(arc.head_var)
                                       THEN Append(@, IsIgnoredLiteral(arc.head_var)) ELSE @])

\* The CHECKs of AnalyzePositiveCycle, on the arcs walked and their reason.
CheckedCycle(walk, reason) ==
  IF walk.failed_check # "" THEN [reason EXCEPT !.failed_check = walk.failed_check]
  ELSE IF Len(walk.arcs) = Cardinality(IntegerVariables) + 1
  THEN [reason EXCEPT !.failed_check = "AnalyzePositiveCycle: Infinite loop."]
  ELSE IF ~(reason.sum > 0)
  THEN [reason EXCEPT !.failed_check = "AnalyzePositiveCycle: sum > 0"]
  ELSE reason

\* A second loop that starts at the second arc of the cycle.
ReasonFromSecondArc(s, walk) ==
  CheckedCycle(walk,
    CycleReason(s, walk.arcs, 2,
      [sum |-> 0, integer_reason |-> << >>, literal_reason |-> << >>,
       must_be_all_true |-> << >>, arc_on_cycle |-> walk.arcs, failed_check |-> ""]))

\* The second loop of AnalyzePositiveCycle, over the arcs of the cycle.
ReasonOfCycle(s, walk) ==
  CheckedCycle(walk,
    CycleReason(s, walk.arcs, 1,
      [sum |-> 0, integer_reason |-> << >>, literal_reason |-> << >>,
       must_be_all_true |-> << >>, arc_on_cycle |-> walk.arcs, failed_check |-> ""]))

AnalyzePositiveCycle(s, first_arc) ==
  ReasonOfCycle(s, ArcsOnCycle(s, s.arcs_[first_arc].head_var, first_arc, << >>))

RECURSIVE EnqueueAllNotTrue(_, _, _, _, _)
EnqueueAllNotTrue(s, must_be_all_true, i, literal_reason, integer_reason) ==
  IF i > Len(must_be_all_true) THEN s
  ELSE IF LiteralIsTrue(s, must_be_all_true[i])
  THEN EnqueueAllNotTrue(s, must_be_all_true, i + 1, literal_reason, integer_reason)
  ELSE EnqueueAllNotTrue(EnqueueLiteral(s, must_be_all_true[i], literal_reason, integer_reason),
                         must_be_all_true, i + 1, literal_reason, integer_reason)

\* A resolution that never looks for a false is-ignored literal.
ResolveCycleWithoutFalseCheck(s, cycle) ==
  IF cycle.failed_check # "" THEN CheckFailure(s, cycle.failed_check)
  ELSE IF cycle.must_be_all_true = << >>
  THEN ReportConflict(s, "cycle", cycle.literal_reason, cycle.integer_reason, cycle.sum)
  ELSE EnqueueAllNotTrue(
         [s EXCEPT !.cycles = Append(@,
            [must_be_all_true |-> STLSortAndRemoveDuplicates(cycle.must_be_all_true),
             sum |-> cycle.sum, arc_on_cycle |-> cycle.arc_on_cycle,
             false_before |-> {l \in Range(cycle.must_be_all_true) : LiteralIsFalse(s, l)},
             true_before |-> {l \in Range(cycle.must_be_all_true) : LiteralIsTrue(s, l)}])],
         STLSortAndRemoveDuplicates(cycle.must_be_all_true), 1,
         cycle.literal_reason, cycle.integer_reason)

\* What BellmanFordTarjan does with the positive cycle analysed: a conflict
\* when no head is optional or an is-ignored literal is false, the enqueue of
\* the is-ignored literals otherwise.
ResolveCycle(s, cycle) ==
  LET must_be_all_true == STLSortAndRemoveDuplicates(cycle.must_be_all_true)
      false_ones == {i \in 1..Len(must_be_all_true) : LiteralIsFalse(s, must_be_all_true[i])}
      seen == [must_be_all_true |-> must_be_all_true, sum |-> cycle.sum,
               arc_on_cycle |-> cycle.arc_on_cycle,
               false_before |-> {l \in Range(must_be_all_true) : LiteralIsFalse(s, l)},
               true_before |-> {l \in Range(must_be_all_true) : LiteralIsTrue(s, l)}]
      logged == [s EXCEPT !.cycles = Append(@, seen)]
  IN IF cycle.failed_check # "" THEN CheckFailure(s, cycle.failed_check)
     ELSE IF cycle.must_be_all_true = << >>
     THEN ReportConflict(logged, "cycle", cycle.literal_reason, cycle.integer_reason, cycle.sum)
     ELSE IF false_ones # {}
     THEN ReportConflict(logged, "cycle",
                         Append(cycle.literal_reason, must_be_all_true[SetMin(false_ones)]),
                         cycle.integer_reason, cycle.sum)
     ELSE EnqueueAllNotTrue(logged, must_be_all_true, 1, cycle.literal_reason, cycle.integer_reason)

HandlePositiveCycle(s, arc_index) == ResolveCycle(s, AnalyzePositiveCycle(s, arc_index))

\* An update that leaves the arc of the previous parent marked.
UpdateParentKeepingMark(s, arc_index, candidate) ==
  LET head == s.arcs_[arc_index].head_var
      new_bound == LowerBound(s, head)
      s2 == IF new_bound = candidate
            THEN [s EXCEPT !.bf_parent_arc_of_[head] = arc_index, !.arcs_[arc_index].is_marked = TRUE]
            ELSE [s EXCEPT !.bf_parent_arc_of_[head] = kNoArcIndex]
      s3 == [s2 EXCEPT !.bf_can_be_skipped_[head] = FALSE]
  IN IF ~s3.bf_in_queue_[head] /\ new_bound >= candidate
     THEN [s3 EXCEPT !.bf_queue_ = Append(@, head), !.bf_in_queue_[head] = TRUE]
     ELSE s3

\* The update of the parent of head once arc_index has pushed it.
UpdateParent(s, arc_index, candidate) ==
  LET head == s.arcs_[arc_index].head_var
      previous == s.bf_parent_arc_of_[head]
      s1 == IF previous # kNoArcIndex THEN [s EXCEPT !.arcs_[previous].is_marked = FALSE] ELSE s
      new_bound == LowerBound(s1, head)
      s2 == IF new_bound = candidate
            THEN [s1 EXCEPT !.bf_parent_arc_of_[head] = arc_index, !.arcs_[arc_index].is_marked = TRUE]
            ELSE [s1 EXCEPT !.bf_parent_arc_of_[head] = kNoArcIndex]
      s3 == [s2 EXCEPT !.bf_can_be_skipped_[head] = FALSE]
  IN IF ~s3.bf_in_queue_[head] /\ new_bound >= candidate
     THEN [s3 EXCEPT !.bf_queue_ = Append(@, head), !.bf_in_queue_[head] = TRUE]
     ELSE s3

\* After DisassembleSubtree: the positive cycle when the tail was found
\* under the head, the new parent of the head otherwise.
AfterDisassemble(walk, arc_index, candidate) ==
  IF walk.found THEN HandlePositiveCycle(walk.state, arc_index)
  ELSE UpdateParent(walk.state, arc_index, candidate)

\* After EnqueueAndCheck: return false on a conflict.
AfterEnqueue(pushed, arc_index, candidate) ==
  IF ~pushed.ret THEN pushed
  ELSE AfterDisassemble(DisassembleSubtree(pushed, pushed.arcs_[arc_index].head_var,
                                           pushed.arcs_[arc_index].tail_var),
                        arc_index, candidate)

\* One turn of the loop over the arcs leaving a node.
RelaxArc(s, arc_index, tail_lb) ==
  LET arc == s.arcs_[arc_index]
      candidate == tail_lb + ArcOffset(s, arc)
  IN IF candidate <= LowerBound(s, arc.head_var) THEN s
     ELSE IF IsCurrentlyIgnored(s, arc.head_var) THEN s
     ELSE AfterEnqueue(EnqueueAndCheck(s, arc_index, candidate), arc_index, candidate)

\* What the observer keeps of a turn that changed something, from the state
\* s before it and the state r after it: the arc, the marked arcs, the
\* parents, the bounds of the head and of the tail, the offset, and whether
\* the turn ended in a conflict or found a cycle.
BellmanFordStep(s, r, arc_index) ==
  [arc |-> arc_index,
   marked |-> {a \in 1..Len(r.arcs_) : r.arcs_[a].is_marked},
   parent |-> r.bf_parent_arc_of_,
   head_lb |-> LowerBound(r, r.arcs_[arc_index].head_var),
   tail_lb |-> LowerBound(r, r.arcs_[arc_index].tail_var),
   offset |-> ArcOffset(r, r.arcs_[arc_index]),
   ret |-> r.ret,
   cycle |-> Len(r.cycles) > Len(s.cycles)]

Observed(s, r, arc_index) ==
  IF r = s \/ r.failed_check # "" THEN r
  ELSE [r EXCEPT !.bf_steps = Append(@, BellmanFordStep(s, r, arc_index))]

\* The loop over the arcs leaving node; tail_lb is read once, before it.
RECURSIVE RelaxOutgoingArcs(_, _, _, _)
RelaxOutgoingArcs(s, node, tail_lb, i) ==
  IF ~s.ret \/ i > Len(s.impacted_arcs_[node]) THEN s
  ELSE RelaxOutgoingArcs(Observed(s, RelaxArc(s, s.impacted_arcs_[node][i], tail_lb),
                                  s.impacted_arcs_[node][i]),
                         node, tail_lb, i + 1)

\* A turn that puts the node it takes back at the end of the queue.
QueueTurnPuttingBack(s) ==
  LET node == Head(s.bf_queue_)
      s1 == [s EXCEPT !.bf_queue_ = Append(Tail(@), node)]
  IN IF s1.bf_can_be_skipped_[node] THEN s1
     ELSE RelaxOutgoingArcs(s1, node, LowerBound(s1, node), 1)

\* One turn of "while (!bf_queue_.empty())".
QueueTurn(s) ==
  LET node == Head(s.bf_queue_)
      s1 == [s EXCEPT !.bf_queue_ = Tail(@), !.bf_in_queue_[node] = FALSE]
  IN IF s1.bf_can_be_skipped_[node] THEN s1
     ELSE RelaxOutgoingArcs(s1, node, LowerBound(s1, node), 1)

RECURSIVE ProcessQueue(_)
ProcessQueue(s) ==
  IF ~s.ret \/ s.bf_queue_ = << >> THEN s
  ELSE ProcessQueue(QueueTurn(s))

\* The cleanup runs when the function is left, on every path.
BellmanFordTarjan(s) == CleanUpMarkedArcsAndParents(ProcessQueue(s))

\* ------------------------------------------------ PropagateOptionalArcs
\* What the observer keeps of an enqueue of PropagateOptionalArcs: the arc,
\* the literal, its literal reason and the size of the trail before it.
PresenceEnqueue(s, arc_index, literal, literal_reason) ==
  [arc |-> arc_index, literal |-> literal, literal_reason |-> literal_reason,
   trail_size |-> Len(s.trail)]

\* The negation of to_propagate goes on the trail with the reason of the arc.
EnqueuePresence(s, arc_index, to_propagate) ==
  LET arc == s.potential_arcs_[arc_index]
      integer_reason ==
        AppendLowerBoundReasonIfValid(s, arc.offset_var,
          <<LowerBoundAsLiteral(s, arc.tail_var), UpperBoundAsLiteral(s, arc.head_var)>>)
      literal_reason ==
        NegatedPresence([arc EXCEPT !.presence_literals =
                           SelectSeq(@, LAMBDA l : l # to_propagate)])
      logged == [s EXCEPT !.presence_enqueues =
                   Append(@, PresenceEnqueue(s, arc_index, Negated(to_propagate), literal_reason))]
  IN EnqueueLiteral(logged, Negated(to_propagate), literal_reason, integer_reason)

\* One turn of "for (const OptionalArcIndex arc_index : ...)" that takes the
\* last presence literal that is not true, however many there are.
PropagateOptionalArcOfAnyCount(s, arc_index) ==
  LET arc == s.potential_arcs_[arc_index]
      not_true == {k \in 1..Len(arc.presence_literals) :
                     ~LiteralIsTrue(s, arc.presence_literals[k])}
      to_propagate == arc.presence_literals[SetMax(not_true)]
  IN IF not_true = {} THEN s
     ELSE IF LiteralIsFalse(s, to_propagate) THEN s
     ELSE IF LowerBound(s, arc.tail_var) + ArcOffset(s, arc) > UpperBound(s, arc.head_var)
     THEN EnqueuePresence(s, arc_index, to_propagate)
     ELSE s

\* One turn of "for (const OptionalArcIndex arc_index : ...)".
PropagateOptionalArc(s, arc_index) ==
  LET arc == s.potential_arcs_[arc_index]
      not_true == {k \in 1..Len(arc.presence_literals) :
                     ~LiteralIsTrue(s, arc.presence_literals[k])}
      to_propagate == arc.presence_literals[SetMax(not_true)]
  IN IF Cardinality(not_true) # 1 THEN s
     ELSE IF LiteralIsFalse(s, to_propagate) THEN s
     ELSE IF LowerBound(s, arc.tail_var) + ArcOffset(s, arc) > UpperBound(s, arc.head_var)
     THEN EnqueuePresence(s, arc_index, to_propagate)
     ELSE s

\* i is the position in modified_vars_.PositionsSetAtLeastOnce() and j the
\* position in impacted_potential_arcs_[var].
RECURSIVE PropagateOptionalArcsFrom(_, _, _)
PropagateOptionalArcsFrom(s, i, j) ==
  IF i > Len(s.modified_vars_) THEN s
  ELSE IF j > Len(s.impacted_potential_arcs_[s.modified_vars_[i]])
  THEN PropagateOptionalArcsFrom(s, i + 1, 1)
  ELSE PropagateOptionalArcsFrom(
         PropagateOptionalArc(s, s.impacted_potential_arcs_[s.modified_vars_[i]][j]), i, j + 1)

\* A propagator that never looks at the optional arcs.
PropagateNoOptionalArc(s) == s

\* A scan that stops after the first modified variable.
PropagateOptionalArcsOfFirstVar(s) ==
  PropagateOptionalArcsFrom([s EXCEPT !.modified_vars_ = SubSeq(@, 1, IF @ = << >> THEN 0 ELSE 1)], 1, 1)

PropagateOptionalArcs(s) == PropagateOptionalArcsFrom(s, 1, 1)

\* ------------------------------------------------------------- Propagate
\* After BellmanFordTarjan: the presence literals of the optional arcs, and
\* modified_vars_ is cleared.
AfterBellmanFordTarjan(pushed) ==
  IF ~pushed.ret THEN pushed
  ELSE [PropagateOptionalArcs(pushed) EXCEPT !.modified_vars_ = << >>]

\* After the loop over the trail.
AfterTrail(consumed) ==
  IF ~consumed.ret THEN consumed
  ELSE AfterBellmanFordTarjan(BellmanFordTarjan(InitializeBFQueueWithModifiedNodes(
                                                  [consumed EXCEPT !.consuming = 0])))

\* A Propagate() that returns right after the trail loop when there was a
\* literal to consume, and leaves Bellman-Ford to the next call.
PropagateTrailFirst(s) ==
  IF s.propagation_trail_index_ < Len(s.trail) THEN ConsumeTrail(s)
  ELSE AfterTrail(ConsumeTrail(s))

PropagateOn(s) == AfterTrail(ConsumeTrail(s))

\* --------------------------------------------------------------- Untrail
RECURSIVE DeactivateArcs(_, _, _)
DeactivateArcs(s, watched, i) ==
  IF ~s.ret \/ i > Len(watched) THEN s
  ELSE LET arc_index == watched[i]
           arc == s.arcs_[arc_index]
           s1 == [s EXCEPT !.arc_counts_[arc_index] = @ + 1]
       IN IF s.arc_counts_[arc_index] # 0 THEN DeactivateArcs(s1, watched, i + 1)
          ELSE IF s.impacted_arcs_[arc.tail_var] = << >>
          THEN CheckFailure(s, "Untrail: pop_back() on an empty vector")
          ELSE DeactivateArcs([RemoveFromConditionalRelations(s1, arc)
                                 EXCEPT !.impacted_arcs_[arc.tail_var] = PopBack(@),
                                        !.deactivated = Append(@, arc_index)],
                              watched, i + 1)

RECURSIVE UntrailLoop(_, _)
UntrailLoop(s, trail_index) ==
  IF ~s.ret \/ s.propagation_trail_index_ <= trail_index THEN s
  ELSE LET s1 == [s EXCEPT !.propagation_trail_index_ = @ - 1]
           literal == s1.trail[s1.propagation_trail_index_ + 1]
       IN UntrailLoop(DeactivateArcs(s1, s1.literal_to_new_impacted_arcs_[literal], 1), trail_index)

\* An Untrail that moves the index back and leaves the arcs installed.
UntrailKeepingArcs(s, trail_index) ==
  IF s.propagation_trail_index_ > trail_index
  THEN [s EXCEPT !.modified_vars_ = << >>, !.propagation_trail_index_ = trail_index]
  ELSE s

UntrailOn(s, trail_index) ==
  UntrailLoop(IF s.propagation_trail_index_ > trail_index
              THEN [s EXCEPT !.modified_vars_ = << >>] ELSE s, trail_index)

\* ---------------------------------------------------------------- AddArc
\* The internal arcs of an AddArc that forgets the rotation bounding -tail.
InternalArcsOfTwoRotations(tail, head, offset_var) ==
  IF offset_var = kNoIntegerVariable
  THEN << [tail_var |-> tail, head_var |-> head, offset_var |-> kNoIntegerVariable],
          [tail_var |-> NegationOf(head), head_var |-> NegationOf(tail), offset_var |-> kNoIntegerVariable] >>
  ELSE << [tail_var |-> tail, head_var |-> head, offset_var |-> offset_var],
          [tail_var |-> offset_var, head_var |-> head, offset_var |-> tail],
          [tail_var |-> tail, head_var |-> NegationOf(offset_var), offset_var |-> NegationOf(head)],
          [tail_var |-> NegationOf(head), head_var |-> NegationOf(offset_var), offset_var |-> tail] >>

\* The internal arcs of one AddArc call: two without an offset variable, six
\* with one.
InternalArcs(tail, head, offset_var) ==
  IF offset_var = kNoIntegerVariable
  THEN << [tail_var |-> tail, head_var |-> head, offset_var |-> kNoIntegerVariable],
          [tail_var |-> NegationOf(head), head_var |-> NegationOf(tail), offset_var |-> kNoIntegerVariable] >>
  ELSE << [tail_var |-> tail, head_var |-> head, offset_var |-> offset_var],
          [tail_var |-> offset_var, head_var |-> head, offset_var |-> tail],
          [tail_var |-> tail, head_var |-> NegationOf(offset_var), offset_var |-> NegationOf(head)],
          [tail_var |-> NegationOf(head), head_var |-> NegationOf(offset_var), offset_var |-> tail],
          [tail_var |-> offset_var, head_var |-> NegationOf(tail), offset_var |-> NegationOf(head)],
          [tail_var |-> NegationOf(head), head_var |-> NegationOf(tail), offset_var |-> offset_var] >>

\* The literals an arc is enforced by: the presence literals given and the
\* not-ignored literals of its optional variables, sorted, without duplicates.
EnforcementLiterals(tail, head, offset_var, presence_literals) ==
  STLSortAndRemoveDuplicates(
    presence_literals
    \o (IF IsOptional(tail) THEN <<Negated(IsIgnoredLiteral(tail))>> ELSE << >>)
    \o (IF IsOptional(head) THEN <<Negated(IsIgnoredLiteral(head))>> ELSE << >>)
    \o (IF offset_var # kNoIntegerVariable /\ IsOptional(offset_var)
        THEN <<Negated(IsIgnoredLiteral(offset_var))>> ELSE << >>))

RECURSIVE WatchLiterals(_, _, _, _)
WatchLiterals(s, presence_literals, i, arc_index) ==
  IF i > Len(presence_literals) THEN s
  ELSE WatchLiterals([s EXCEPT !.literal_to_new_impacted_arcs_[presence_literals[i]] = Append(@, arc_index)],
                     presence_literals, i + 1, arc_index)

\* One turn of "for (const InternalArc a : to_add)".
AddInternalArc(s, a, offset, enforcement_literals) ==
  LET arc_index == Len(s.arcs_) + 1
      to_remove == Negated(IsIgnoredLiteral(a.head_var))
      presence_literals ==
        IF IsOptional(a.head_var) /\ IndexOf(enforcement_literals, to_remove) # 0
        THEN RemoveAt(enforcement_literals, IndexOf(enforcement_literals, to_remove))
        ELSE enforcement_literals
      s1 == [s EXCEPT !.modified_vars_ = SetBit(@, a.tail_var),
                      !.arcs_ = Append(@, ArcInfo(a.tail_var, a.head_var, offset, a.offset_var,
                                                  presence_literals))]
      s2 == IF presence_literals = << >>
            THEN [s1 EXCEPT !.impacted_arcs_[a.tail_var] = Append(@, arc_index)]
            ELSE WatchLiterals(s1, presence_literals, 1, arc_index)
      not_true == Cardinality({i \in 1..Len(presence_literals) :
                                 ~LiteralIsTrue(s, presence_literals[i])})
  IN IF CurrentDecisionLevel = 0
     THEN [s2 EXCEPT !.arc_counts_ = Append(@, Len(presence_literals))]
     ELSE IF presence_literals = << >> \/ not_true > 0
     THEN [s2 EXCEPT !.arc_counts_ = Append(@, not_true)]
     ELSE CheckFailure(s, "AddArc: presence_literals.empty() || arc_counts_.back() > 0")

RECURSIVE AddInternalArcs(_, _, _, _, _)
AddInternalArcs(s, to_add, i, offset, enforcement_literals) ==
  IF ~s.ret \/ i > Len(to_add) THEN s
  ELSE AddInternalArcs(AddInternalArc(s, to_add[i], offset, enforcement_literals),
                       to_add, i + 1, offset, enforcement_literals)

\* An AddArc that takes the enforcement literals as they are at every level.
AddArcKeepingLiterals(s, tail, head, offset_given, offset_var_given, presence_literals) ==
  LET enforcement_literals == EnforcementLiterals(tail, head, offset_var_given, presence_literals)
      is_fixed == /\ offset_var_given # kNoIntegerVariable
                  /\ LevelZeroLowerBound(offset_var_given) = LevelZeroUpperBound(offset_var_given)
      offset == IF is_fixed THEN offset_given + LevelZeroLowerBound(offset_var_given) ELSE offset_given
      offset_var == IF is_fixed THEN kNoIntegerVariable ELSE offset_var_given
      arc_index == Len(s.potential_arcs_) + 1
      s1 == [s EXCEPT !.potential_arcs_ =
                        Append(@, ArcInfo(tail, head, offset, offset_var, enforcement_literals)),
                      !.impacted_potential_arcs_[tail] = Append(@, arc_index),
                      !.impacted_potential_arcs_[NegationOf(head)] = Append(@, arc_index)]
  IN AddInternalArcs(IF enforcement_literals # << >> THEN s1 ELSE s,
                     InternalArcs(tail, head, offset_var), 1, offset, enforcement_literals)

AddArcOn(s, tail, head, offset_given, offset_var_given, presence_literals) ==
  LET all_literals == EnforcementLiterals(tail, head, offset_var_given, presence_literals)
      at_level_zero == CurrentDecisionLevel = 0
      enforcement_literals ==
        IF at_level_zero THEN SelectSeq(all_literals, LAMBDA l : ~LiteralIsTrue(s, l))
        ELSE all_literals
      is_fixed == /\ offset_var_given # kNoIntegerVariable
                  /\ LevelZeroLowerBound(offset_var_given) = LevelZeroUpperBound(offset_var_given)
      offset == IF is_fixed THEN offset_given + LevelZeroLowerBound(offset_var_given) ELSE offset_given
      offset_var == IF is_fixed THEN kNoIntegerVariable ELSE offset_var_given
      arc_index == Len(s.potential_arcs_) + 1
      s1 == [s EXCEPT !.potential_arcs_ =
                        Append(@, ArcInfo(tail, head, offset, offset_var, enforcement_literals)),
                      !.impacted_potential_arcs_[tail] = Append(@, arc_index)]
      s2 == [s1 EXCEPT !.impacted_potential_arcs_[NegationOf(head)] = Append(@, arc_index)]
      s3 == IF offset_var # kNoIntegerVariable
            THEN [s2 EXCEPT !.impacted_potential_arcs_[offset_var] = Append(@, arc_index)]
            ELSE s2
  IN IF at_level_zero /\ \E i \in 1..Len(all_literals) : LiteralIsFalse(s, all_literals[i])
     THEN s
     ELSE AddInternalArcs(IF enforcement_literals # << >> THEN s3 ELSE s,
                          InternalArcs(tail, head, offset_var), 1, offset, enforcement_literals)

\* AddPrecedenceWithOffset(i1, i2, offset) is AddArc(i1, i2, offset,
\* kNoIntegerVariable, {}).  The scan stops at the first arc of
\* impacted_arcs_[i1] whose head is i2.
AddPrecedenceWithOffsetIfNewOn(s, i1, i2, offset) ==
  LET to_head == SelectSeq(s.impacted_arcs_[i1], LAMBDA index : s.arcs_[index].head_var = i2)
  IN IF to_head # << >> /\ offset <= ArcOffset(s, s.arcs_[to_head[1]])
     THEN [s EXCEPT !.ret = FALSE]
     ELSE AddArcOn(s, i1, i2, offset, kNoIntegerVariable, << >>)

\* ---------------------------------------------------- ComputePrecedences
\* An IntegerPrecedences: the index in vars of the variable before var, the
\* arc and its offset.
IntegerPrecedences(index, var, arc_index, offset) ==
  [index |-> index, var |-> var, arc_index |-> arc_index, offset |-> offset]

SortedVar(var, lower_bound) == [var |-> var, lower_bound |-> lower_bound]

\* One turn of "for (const ArcIndex arc_index : impacted_arcs_[var])" without
\* the test of var_to_last_index_.
CollectArcWithoutSeen(m, s, index, arc_index) ==
  LET arc == s.arcs_[arc_index]
  IN IF IsCurrentlyIgnored(s, arc.head_var) THEN m
     ELSE IF ArcOffset(s, arc) < 0 THEN m
     ELSE [m EXCEPT !.tmp_sorted_vars_ =
                      IF m.var_to_degree_[arc.head_var] = 0
                      THEN Append(@, SortedVar(arc.head_var, LowerBound(s, arc.head_var))) ELSE @,
                    !.var_to_last_index_[arc.head_var] = index,
                    !.var_to_degree_[arc.head_var] = @ + 1,
                    !.tmp_precedences_ =
                      Append(@, IntegerPrecedences(index, arc.head_var, arc_index, ArcOffset(s, arc)))]

\* One turn of "for (const ArcIndex arc_index : impacted_arcs_[var])", on
\* m = [var_to_degree_, var_to_last_index_, tmp_sorted_vars_, tmp_precedences_].
CollectArc(m, s, index, arc_index) ==
  LET arc == s.arcs_[arc_index]
  IN IF IsCurrentlyIgnored(s, arc.head_var) THEN m
     ELSE IF ArcOffset(s, arc) < 0 THEN m
     ELSE IF m.var_to_degree_[arc.head_var] # 0 /\ m.var_to_last_index_[arc.head_var] = index THEN m
     ELSE [m EXCEPT !.tmp_sorted_vars_ =
                      IF m.var_to_degree_[arc.head_var] = 0
                      THEN Append(@, SortedVar(arc.head_var, LowerBound(s, arc.head_var))) ELSE @,
                    !.var_to_last_index_[arc.head_var] = index,
                    !.var_to_degree_[arc.head_var] = @ + 1,
                    !.tmp_precedences_ =
                      Append(@, IntegerPrecedences(index, arc.head_var, arc_index, ArcOffset(s, arc)))]

\* "for (int index = 0; index < vars.size(); ++index)": i is index + 1 and j
\* the position in impacted_arcs_[vars[index]].
RECURSIVE Collect(_, _, _, _, _)
Collect(m, s, vars_in, i, j) ==
  IF i > Len(vars_in) THEN m
  ELSE IF j > Len(s.impacted_arcs_[vars_in[i]]) THEN Collect(m, s, vars_in, i + 1, 1)
  ELSE Collect(CollectArc(m, s, i - 1, s.impacted_arcs_[vars_in[i]][j]), s, vars_in, i, j + 1)

\* std::sort(tmp_sorted_vars_) compares the lower bounds only and leaves the
\* order of equal elements open: every order it may produce.
RECURSIVE Orders(_)
Orders(S) ==
  IF S = {} THEN {<< >>}
  ELSE UNION {{<<x>> \o rest : rest \in Orders(S \ {x})} : x \in S}
SortedOrders(sorted_vars) ==
  {o \in Orders(Range(sorted_vars)) :
     \A i \in 1..Len(o), j \in 1..Len(o) : i < j => o[i].lower_bound <= o[j].lower_bound}

\* "for (const SortedVar pair : tmp_sorted_vars_)": var_to_degree_ becomes
\* the first position of the variable in the output, -1 for a single entry.
RECURSIVE Positions(_, _, _)
Positions(m, sorted, k) ==
  IF k > Len(sorted) THEN m
  ELSE IF m.var_to_degree_[sorted[k].var] > 1
  THEN Positions([m EXCEPT !.var_to_degree_[sorted[k].var] = m.start,
                           !.start = @ + m.var_to_degree_[sorted[k].var]], sorted, k + 1)
  ELSE Positions([m EXCEPT !.var_to_degree_[sorted[k].var] = -1], sorted, k + 1)

\* output->resize(start): the elements kept, new ones value-initialized.
Resized(passed, start) ==
  [i \in 1..start |-> IF i <= Len(passed) THEN passed[i]
                      ELSE IntegerPrecedences(0, 0, 0, 0)]

\* "for (const IntegerPrecedences& precedence : tmp_precedences_)"
RECURSIVE Permute(_, _)
Permute(m, k) ==
  IF k > Len(m.tmp_precedences_) THEN m
  ELSE IF m.var_to_degree_[m.tmp_precedences_[k].var] < 0 THEN Permute(m, k + 1)
  ELSE Permute([m EXCEPT !.output[m.var_to_degree_[m.tmp_precedences_[k].var] + 1] =
                           m.tmp_precedences_[k],
                         !.var_to_degree_[m.tmp_precedences_[k].var] = @ + 1], k + 1)

Cleanup(m, sorted) ==
  [m EXCEPT !.var_to_degree_ =
              [v \in DOMAIN @ |-> IF \E k \in 1..Len(sorted) : sorted[k].var = v THEN 0 ELSE @[v]]]

Placed(m, passed) == Permute([m EXCEPT !.output = Resized(passed, m.start)], 1)

\* ComputePrecedences from the sort on.
Regrouped(m, sorted, passed) ==
  Cleanup(Placed(Positions([m EXCEPT !.tmp_sorted_vars_ = sorted], sorted, 1), passed), sorted)

\* What ComputePrecedences(vars_in, &passed) may leave.
AfterCollect(collected, passed) ==
  {Regrouped(collected, sorted, passed) : sorted \in SortedOrders(collected.tmp_sorted_vars_)}

ComputePrecedencesOn(s, degree, last_index, vars_in, passed) ==
  AfterCollect(Collect([var_to_degree_ |-> degree, var_to_last_index_ |-> last_index,
                        tmp_sorted_vars_ |-> << >>, tmp_precedences_ |-> << >>,
                        start |-> 0, output |-> << >>], s, vars_in, 1, 1),
               passed)

\* ------------------- AddGreaterThanAtLeastOneOfConstraintsFromClause
\* "Collect all arcs impacted by this clause": the arcs watched by the
\* literals of the clause, in the order of the clause, that have one presence
\* literal and no offset variable.
RECURSIVE CollectInfos(_, _, _)
CollectInfos(s, clause, k) ==
  IF k > Len(clause) THEN << >>
  ELSE LET watched == s.literal_to_new_impacted_arcs_[clause[k]]
           kept == SelectSeq(watched,
                             LAMBDA arc_index :
                               /\ Len(s.arcs_[arc_index].presence_literals) = 1
                               /\ s.arcs_[arc_index].offset_var = kNoIntegerVariable)
       IN [i \in 1..Len(kept) |-> s.arcs_[kept[i]]] \o CollectInfos(s, clause, k + 1)

\* std::stable_sort by head_var: the arcs of each head, heads ascending, in
\* the order they had.
RECURSIVE StableSortByHead(_, _)
StableSortByHead(infos, head_var) ==
  IF head_var > 2 * NumPositiveVars - 1 THEN << >>
  ELSE SelectSeq(infos, LAMBDA arc : arc.head_var = head_var)
         \o StableSortByHead(infos, head_var + 1)

\* "for (; j < arcs.size() && l == arcs[j].presence_literals.front(); ++j)":
\* m is [j, added, vars, offsets, selectors, enforcements], j counted from 1.
RECURSIVE TakeArcsOf(_, _, _)
TakeArcsOf(l, arcs, m) ==
  IF m.j <= Len(arcs) /\ l = arcs[m.j].presence_literals[1]
  THEN TakeArcsOf(l, arcs, [m EXCEPT !.j = @ + 1, !.added = TRUE,
                                     !.vars = Append(@, arcs[m.j].tail_var),
                                     !.offsets = Append(@, arcs[m.j].offset),
                                     !.selectors = Append(@, l)])
  ELSE m

\* "for (const Literal l : clause)" over the arcs of one head.
RECURSIVE MatchClause(_, _, _, _)
MatchClause(clause, arcs, k, m) ==
  IF k > Len(clause) THEN m
  ELSE LET taken == TakeArcsOf(clause[k], arcs, [m EXCEPT !.added = FALSE])
       IN MatchClause(clause, arcs, k + 1,
                      IF taken.added THEN taken
                      ELSE [taken EXCEPT !.enforcements = Append(@, Negated(clause[k]))])

\* An arc of GreaterThanAtLeastOneOf(head_var, vars, offsets, selectors,
\* enforcements) as the observer keeps it.
GreaterThanAtLeastOneOf(head_var, m) ==
  [head_var |-> head_var, vars |-> m.vars, offsets |-> m.offsets, selectors |-> m.selectors,
   enforcements |-> m.enforcements]

\* SatSolver::FinishPropagation(): the propagators run, this one among them;
\* false when this one reports a conflict or when another one does.
FinishPropagation(s, fails) ==
  LET propagated == PropagateOn(s)
  IN IF fails THEN [propagated EXCEPT !.ret = FALSE] ELSE propagated

\* A loop over the heads that adds a constraint whatever the number of
\* different selectors.
RECURSIVE HeadLoopOfAnySelectors(_, _, _, _, _)
HeadLoopOfAnySelectors(s, clause, infos, i, fails_at) ==
  IF i > Len(infos) THEN s
  ELSE LET head_var == infos[i].head_var
           arcs == SelectSeq(infos, LAMBDA arc : arc.head_var = head_var)
           next == i + Len(arcs)
           m == MatchClause(clause, arcs, 1,
                            [j |-> 1, added |-> FALSE, vars |-> << >>, offsets |-> << >>,
                             selectors |-> << >>, enforcements |-> << >>])
           with == [s EXCEPT !.added = Append(@, GreaterThanAtLeastOneOf(head_var, m))]
       IN IF Len(arcs) < 2 THEN HeadLoopOfAnySelectors(s, clause, infos, next, fails_at)
          ELSE IF Len(arcs) + 1 < Len(clause)
          THEN HeadLoopOfAnySelectors(s, clause, infos, next, fails_at)
          ELSE LET done == FinishPropagation(with, Len(with.added) = fails_at)
               IN IF ~done.ret THEN done
                  ELSE HeadLoopOfAnySelectors(done, clause, infos, next, fails_at)

\* "We process ArcInfo with the same head_var together": infos is sorted by
\* head and i is the start of a group; another propagator reports a conflict
\* after the constraint number fails_at.
RECURSIVE HeadLoop(_, _, _, _, _)
HeadLoop(s, clause, infos, i, fails_at) ==
  IF i > Len(infos) THEN s
  ELSE LET head_var == infos[i].head_var
           arcs == SelectSeq(infos, LAMBDA arc : arc.head_var = head_var)
           next == i + Len(arcs)
           m == MatchClause(clause, arcs, 1,
                            [j |-> 1, added |-> FALSE, vars |-> << >>, offsets |-> << >>,
                             selectors |-> << >>, enforcements |-> << >>])
           with == [s EXCEPT !.added = Append(@, GreaterThanAtLeastOneOf(head_var, m))]
       IN IF Len(arcs) < 2 THEN HeadLoop(s, clause, infos, next, fails_at)
          ELSE IF Len(arcs) + 1 < Len(clause) THEN HeadLoop(s, clause, infos, next, fails_at)
          ELSE IF Len(m.enforcements) + 1 = Len(clause)
          THEN HeadLoop(s, clause, infos, next, fails_at)
          ELSE LET done == FinishPropagation(with, Len(with.added) = fails_at)
               IN IF ~done.ret THEN done ELSE HeadLoop(done, clause, infos, next, fails_at)

\* The number it returns is the number of constraints added.
AddGreaterThanAtLeastOneOfConstraintsFromClauseOn(s, clause, fails_at) ==
  LET infos == CollectInfos(s, clause, 1)
  IN IF CurrentDecisionLevel # 0
     THEN CheckFailure(s, "AddGreaterThanAtLeastOneOfConstraintsFromClause: CurrentDecisionLevel() == 0")
     ELSE IF Len(clause) < 2 THEN s
     ELSE IF Len(infos) <= 1 THEN s
     ELSE HeadLoop(s, clause, StableSortByHead(infos, 0), 1, fails_at)

\* -------------------------------------------------------------- the state
\* The arguments of a call: those of AddArc, and the vars and the vector
\* passed to ComputeFullPrecedences.
Input(tail, head, offset, offset_var, presence_literals) ==
  [tail |-> tail, head |-> head, offset |-> offset, offset_var |-> offset_var,
   presence_literals |-> presence_literals, vars |-> << >>, output |-> << >>,
   clause |-> << >>]
NoInput == Input(kNoIntegerVariable, kNoIntegerVariable, 0, kNoIntegerVariable, << >>)

\* The members of the propagator and the trails as the record the operators
\* above work on.
Self ==
  [arcs_ |-> arcs_, potential_arcs_ |-> potential_arcs_, impacted_arcs_ |-> impacted_arcs_,
   impacted_potential_arcs_ |-> impacted_potential_arcs_,
   literal_to_new_impacted_arcs_ |-> literal_to_new_impacted_arcs_,
   arc_counts_ |-> arc_counts_, conditional_relations_ |-> conditional_relations_,
   modified_vars_ |-> modified_vars_, propagation_trail_index_ |-> propagation_trail_index_,
   bf_queue_ |-> bf_queue_, bf_in_queue_ |-> bf_in_queue_,
   bf_parent_arc_of_ |-> bf_parent_arc_of_, bf_can_be_skipped_ |-> bf_can_be_skipped_,
   current_bound |-> current_bound, trail |-> trail, index_history |-> index_history,
   ret |-> TRUE, conflict |-> NoConflict, failed_check |-> "",
   enq_lits |-> << >>, enq_bounds |-> << >>, cycles |-> << >>, deactivated |-> << >>,
   overflows |-> << >>, presence_enqueues |-> << >>, consuming |-> 0, bf_steps |-> << >>,
   added |-> << >>, input |-> NoInput]

\* The state a call leaves: nothing of a process that a CHECK aborted.
Becomes(s) ==
  IF s.failed_check # ""
  THEN /\ check_failed' = s.failed_check
       /\ UNCHANGED <<propagator_vars, current_bound, trail>>
  ELSE /\ check_failed' = check_failed
       /\ arcs_' = s.arcs_
       /\ potential_arcs_' = s.potential_arcs_
       /\ impacted_arcs_' = s.impacted_arcs_
       /\ impacted_potential_arcs_' = s.impacted_potential_arcs_
       /\ literal_to_new_impacted_arcs_' = s.literal_to_new_impacted_arcs_
       /\ arc_counts_' = s.arc_counts_
       /\ conditional_relations_' = s.conditional_relations_
       /\ modified_vars_' = s.modified_vars_
       /\ propagation_trail_index_' = s.propagation_trail_index_
       /\ bf_queue_' = s.bf_queue_
       /\ bf_in_queue_' = s.bf_in_queue_
       /\ bf_parent_arc_of_' = s.bf_parent_arc_of_
       /\ bf_can_be_skipped_' = s.bf_can_be_skipped_
       /\ current_bound' = s.current_bound
       /\ trail' = s.trail

\* What the observer keeps of a call: its name, what it returned, what it
\* enqueued, the cycles it found, the arcs it deactivated, the pushes above
\* an upper bound, the trail position of the literal whose consumption ended
\* in a conflict (0 when there is none), that position of the call before,
\* the steps of its Bellman-Ford loop, the constraints it added to the
\* solver, and whether it is a Propagate() that
\* directly follows a Propagate() that returned true.
Call(op, s) ==
  [op |-> op, ret |-> s.ret, conflict |-> s.conflict, enq_lits |-> s.enq_lits,
   enq_bounds |-> s.enq_bounds, cycles |-> s.cycles, deactivated |-> s.deactivated,
   overflows |-> s.overflows, presence_enqueues |-> s.presence_enqueues,
   consuming |-> s.consuming, after_consuming |-> last_call.consuming,
   bf_steps |-> s.bf_steps, added |-> s.added, input |-> s.input,
   repeat |-> op = "Propagate" /\ last_call.op = "Propagate" /\ last_call.ret]

\* -------------------------------------------------- PrecedenceRelations
kWorkLimit == 1000000

\* The members of the relation store as the record the operators work on.
Store ==
  [graph_ |-> graph_, arc_offset_ |-> arc_offset_, is_built_ |-> is_built_,
   is_dag_ |-> is_dag_, topological_order_ |-> topological_order_,
   all_relations_ |-> all_relations_]

EmptyMap == [p \in {} |-> 0]

GraphArc(tail, head) == [tail |-> tail, head |-> head]

\* An Add that records relations of negative offset too.
AddWithAnyOffset(r, tail, head, offset) ==
  IF r.is_built_ THEN r
  ELSE IF UpperBound(Self, tail) + offset <= LowerBound(Self, head) THEN r
  ELSE IF PositiveVariable(tail) = PositiveVariable(head) THEN r
  ELSE [r EXCEPT !.graph_ = @ \o <<GraphArc(tail, head), GraphArc(NegationOf(head), NegationOf(tail))>>,
                 !.arc_offset_ = @ \o <<offset, offset>>]

\* An Add that does not look at is_built_.
AddAfterBuild(r, tail, head, offset) ==
  IF UpperBound(Self, tail) + offset <= LowerBound(Self, head) THEN r
  ELSE IF PositiveVariable(tail) = PositiveVariable(head) THEN r
  ELSE IF offset < 0 THEN r
  ELSE [r EXCEPT !.graph_ = @ \o <<GraphArc(tail, head), GraphArc(NegationOf(head), NegationOf(tail))>>,
                 !.arc_offset_ = @ \o <<offset, offset>>]

AddOn(r, tail, head, offset) ==
  IF r.is_built_ THEN r
  ELSE IF UpperBound(Self, tail) + offset <= LowerBound(Self, head) THEN r
  ELSE IF PositiveVariable(tail) = PositiveVariable(head) THEN r
  ELSE IF offset < 0 THEN r
  ELSE [r EXCEPT !.graph_ = @ \o <<GraphArc(tail, head), GraphArc(NegationOf(head), NegationOf(tail))>>,
                 !.arc_offset_ = @ \o <<offset, offset>>]

\* util::StaticGraph: the nodes are 0..num_nodes-1; Build sorts the arcs by
\* tail, those of one tail staying in the order of their AddArc calls, and
\* returns the permutation; OutgoingArcs lists the arcs of a tail in order.
num_nodes(graph) ==
  IF graph = << >> THEN 0
  ELSE SetMax({graph[i].tail : i \in 1..Len(graph)} \cup {graph[i].head : i \in 1..Len(graph)}) + 1

OutgoingArcs(graph, node) ==
  SelectSeq([i \in 1..Len(graph) |-> i], LAMBDA i : graph[i].tail = node)

RECURSIVE ArcsByTail(_, _, _)
ArcsByTail(graph, node, n) ==
  IF node >= n THEN << >> ELSE OutgoingArcs(graph, node) \o ArcsByTail(graph, node + 1, n)

Permuted(seq, order) == [i \in 1..Len(order) |-> seq[order[i]]]

\* DenseIntStableTopologicalSorter: GetNext gives the smallest node all of
\* whose predecessors are out; it returns false when none is left, with
\* graph_has_cycle set when nodes remain.
RECURSIVE SorterLoop(_, _, _)
SorterLoop(graph, n, order) ==
  LET remaining == (0..(n - 1)) \ Range(order)
      ready == {v \in remaining :
                  \A i \in 1..Len(graph) : graph[i].head = v => graph[i].tail \in Range(order)}
  IN IF ready = {} THEN [order |-> order, graph_has_cycle |-> remaining # {}]
     ELSE SorterLoop(graph, n, Append(order, SetMin(ready)))

\* The lambda add of Build, on c = [all_relations_, before, work]; this one
\* keeps the first offset of a pair.
RelationAddFirst(c, a, b, offset) ==
  IF <<a, b>> \in DOMAIN c.all_relations_
  THEN c
  ELSE [c EXCEPT !.all_relations_ = [p \in DOMAIN c.all_relations_ \cup {<<a, b>>} |->
                                       IF p = <<a, b>> THEN offset ELSE c.all_relations_[p]],
                 !.before[b] = Append(@, a)]

\* This one keeps the last offset of a pair.
RelationAddLast(c, a, b, offset) ==
  IF <<a, b>> \in DOMAIN c.all_relations_
  THEN [c EXCEPT !.all_relations_[<<a, b>>] = offset]
  ELSE [c EXCEPT !.all_relations_ = [p \in DOMAIN c.all_relations_ \cup {<<a, b>>} |->
                                       IF p = <<a, b>> THEN offset ELSE c.all_relations_[p]],
                 !.before[b] = Append(@, a)]

RelationAdd(c, a, b, offset) ==
  IF <<a, b>> \in DOMAIN c.all_relations_
  THEN [c EXCEPT !.all_relations_[<<a, b>>] = IF offset > @ THEN offset ELSE @]
  ELSE [c EXCEPT !.all_relations_ = [p \in DOMAIN c.all_relations_ \cup {<<a, b>>} |->
                                       IF p = <<a, b>> THEN offset ELSE c.all_relations_[p]],
                 !.before[b] = Append(@, a)]

Tick(c) == [c EXCEPT !.work = @ + 1]

\* "for (const IntegerVariable before_var : before[tail_var])"
RECURSIVE BeforeLoop(_, _, _, _, _)
BeforeLoop(c, tail_var, head_var, arc_offset, i) ==
  IF i > Len(c.before[tail_var]) THEN c
  ELSE IF c.work + 1 > kWorkLimit THEN Tick(c)
  ELSE LET before_var == c.before[tail_var][i]
           offset == c.all_relations_[<<before_var, tail_var>>] + arc_offset
       IN BeforeLoop(RelationAdd(RelationAdd(Tick(c), before_var, head_var, offset),
                                 NegationOf(head_var), NegationOf(before_var), -offset),
                     tail_var, head_var, arc_offset, i + 1)

\* "for (const int arc : graph_.OutgoingArcs(tail_var.value()))"
RECURSIVE ArcLoop(_, _, _, _, _)
ArcLoop(c, r, tail_var, arcs, j) ==
  IF j > Len(arcs) THEN c
  ELSE IF c.work + 1 > kWorkLimit THEN Tick(c)
  ELSE LET head_var == r.graph_[arcs[j]].head
           arc_offset == r.arc_offset_[arcs[j]]
       IN ArcLoop(BeforeLoop(RelationAdd(RelationAdd(Tick(c), tail_var, head_var, arc_offset),
                                         NegationOf(head_var), NegationOf(tail_var), -arc_offset),
                             tail_var, head_var, arc_offset, 1),
                  r, tail_var, arcs, j + 1)

\* "for (const IntegerVariable tail_var : topological_order_)"
RECURSIVE TailLoop(_, _, _)
TailLoop(c, r, k) ==
  IF k > Len(r.topological_order_) THEN c
  ELSE IF c.work + 1 > kWorkLimit THEN Tick(c)
  ELSE TailLoop(ArcLoop(Tick(c), r, r.topological_order_[k],
                        OutgoingArcs(r.graph_, r.topological_order_[k]), 1),
                r, k + 1)

\* A closure that stops after the first half of the topological order, as
\* one that ran out of work does.
ClosureCutShort(r) ==
  TailLoop([all_relations_ |-> r.all_relations_,
            before |-> [v \in 0..(num_nodes(r.graph_) - 1) |-> << >>],
            work |-> 0],
           [r EXCEPT !.topological_order_ = SubSeq(@, 1, Len(@) \div 2)], 1).all_relations_

\* The relations of the sorted graph r.
Closure(r) ==
  TailLoop([all_relations_ |-> r.all_relations_,
            before |-> [v \in 0..(num_nodes(r.graph_) - 1) |-> << >>],
            work |-> 0], r, 1).all_relations_

\* A Build that goes on to the relations whatever the sort says.
AfterSortIgnoringCycle(r, sorted) ==
  [r EXCEPT !.topological_order_ = sorted.order, !.is_dag_ = TRUE,
            !.all_relations_ = Closure([r EXCEPT !.topological_order_ = sorted.order])]

\* Build from the topological sort on: r has the sorted graph.
AfterSort(r, sorted) ==
  IF sorted.graph_has_cycle
  THEN [r EXCEPT !.topological_order_ = sorted.order, !.is_dag_ = FALSE]
  ELSE [r EXCEPT !.topological_order_ = sorted.order, !.is_dag_ = TRUE,
                 !.all_relations_ = Closure([r EXCEPT !.topological_order_ = sorted.order])]

\* Build from graph_.Build on.
AfterGraphBuild(r, permutation) ==
  AfterSort([r EXCEPT !.is_built_ = TRUE,
                      !.graph_ = Permuted(@, permutation),
                      !.arc_offset_ = Permuted(@, permutation)],
            SorterLoop(Permuted(r.graph_, permutation), num_nodes(r.graph_), << >>))

BuildOn(r) ==
  IF r.is_built_ THEN r
  ELSE AfterGraphBuild(r, ArcsByTail(r.graph_, 0, num_nodes(r.graph_)))

\* ComputeFullPrecedences on q = [is_interesting, vars_before_with_offset,
\* output]: one arc of tail_var.
FullPrecedence(var, indices, offsets) == [var |-> var, indices |-> indices, offsets |-> offsets]

Updated(old, tail_map, tail_var, arc_offset, to_consider) ==
  [v \in DOMAIN old \cup DOMAIN tail_map \cup ({tail_var} \cap to_consider) |->
     SetMax({old[w] : w \in {v} \cap DOMAIN old}
            \cup {arc_offset + tail_map[w] : w \in {v} \cap DOMAIN tail_map}
            \cup {arc_offset : w \in {v} \cap {tail_var} \cap to_consider})]

SetInteresting(q, head_var, to_update, tail_map) ==
  [q EXCEPT !.vars_before_with_offset =
              [h \in DOMAIN @ \cup {head_var} |-> IF h = head_var THEN to_update ELSE @[h]],
            !.is_interesting =
              IF Cardinality(DOMAIN to_update) > Cardinality(DOMAIN tail_map) + 1
              THEN @ \cup {head_var} ELSE @ \ {head_var}]

QueryArc(q, r, to_consider, tail_var, tail_map, arc) ==
  IF DOMAIN tail_map = {} /\ tail_var \notin to_consider THEN q
  ELSE SetInteresting(q, r.graph_[arc].head,
                      Updated(IF r.graph_[arc].head \in DOMAIN q.vars_before_with_offset
                              THEN q.vars_before_with_offset[r.graph_[arc].head] ELSE EmptyMap,
                              tail_map, tail_var, r.arc_offset_[arc], to_consider),
                      tail_map)

RECURSIVE QueryArcs(_, _, _, _, _, _, _)
QueryArcs(q, r, to_consider, tail_var, tail_map, arcs, j) ==
  IF j > Len(arcs) THEN q
  ELSE QueryArcs(QueryArc(q, r, to_consider, tail_var, tail_map, arcs[j]),
                 r, to_consider, tail_var, tail_map, arcs, j + 1)

\* The entry of tail_var: the indices (from 0) of the vars in tail_map and
\* their offsets.
Extract(q, vars_in, tail_var, tail_map) ==
  IF tail_var \notin q.is_interesting THEN q
  ELSE IF Cardinality(DOMAIN tail_map) = 1 THEN q
  ELSE LET found == SelectSeq([i \in 1..Len(vars_in) |-> i], LAMBDA i : vars_in[i] \in DOMAIN tail_map)
       IN [q EXCEPT !.output =
             Append(@, FullPrecedence(tail_var,
                                      [i \in 1..Len(found) |-> found[i] - 1],
                                      [i \in 1..Len(found) |-> tail_map[vars_in[found[i]]]]))]

QueryTail(q, r, vars_in, tail_var, tail_map) ==
  Extract(QueryArcs(q, r, Range(vars_in), tail_var, tail_map, OutgoingArcs(r.graph_, tail_var), 1),
          vars_in, tail_var, tail_map)

RECURSIVE QueryTails(_, _, _, _)
QueryTails(q, r, vars_in, k) ==
  IF k > Len(r.topological_order_) THEN q
  ELSE LET tail_var == r.topological_order_[k]
       IN IF tail_var \notin Range(vars_in) /\ tail_var \notin DOMAIN q.vars_before_with_offset
          THEN QueryTails(q, r, vars_in, k + 1)
          ELSE QueryTails(QueryTail(q, r, vars_in, tail_var,
                                    IF tail_var \in DOMAIN q.vars_before_with_offset
                                    THEN q.vars_before_with_offset[tail_var] ELSE EmptyMap),
                          r, vars_in, k + 1)

\* The store and the vector after ComputeFullPrecedences(vars_in, &passed).
Queried(r, vars_in, cleared) ==
  [store |-> r,
   output |-> IF ~r.is_dag_ THEN cleared
              ELSE QueryTails([is_interesting |-> {}, vars_before_with_offset |-> EmptyMap,
                               output |-> cleared], r, vars_in, 1).output]

ComputeFullPrecedencesOn(r, vars_in, passed) ==
  Queried(IF r.is_built_ THEN r ELSE BuildOn(r), vars_in, << >>)

\* ------------------------------------------------------------ CpModelView
\* A reference to a proto variable: var, or -var - 1 for its negation.
NegatedRef(ref) == -ref - 1
PositiveRef(ref) == IF ref >= 0 THEN ref ELSE -ref - 1
RefIsPositive(ref) == ref >= 0

\* BooleanOrIntegerLiteral: a Boolean literal, an integer literal, or neither.
NoIntegerLiteral == [var |-> kNoIntegerVariable, bound |-> 0]
BooleanOrIntegerLiteral(boolean_literal_index, integer_literal) ==
  [boolean_literal_index |-> boolean_literal_index, integer_literal |-> integer_literal]
NullLiteral == BooleanOrIntegerLiteral(kNoLiteralIndex, NoIntegerLiteral)

\* CpModelMapping: proto variable var is the integer variable 2 * var or the
\* Boolean literal 2 * var; the literal of (var == value) in the full
\* encoding of an integer variable.
MappingInteger(var) == 2 * var
MappingLiteral(var) == 2 * var
EncodingLiteral(var, value) == 2 * (NumProtoVars + var * (ValueSpan + 1) + value)

IsBoolean(w, var) == w[var].kind = "boolean"
IsInteger(w, var) == w[var].kind = "integer"

\* IntegerTrail::LowerBound and UpperBound of an integer proto variable: the
\* ends of the values that are still possible.
ViewLowerBound(w, var) == SetMin(w[var].possible)
ViewUpperBound(w, var) == SetMax(w[var].possible)

IsFixed(w, var) ==
  IF IsBoolean(w, var) THEN w[var].assignment # "unassigned"
  ELSE IF IsInteger(w, var) THEN ViewLowerBound(w, var) = ViewUpperBound(w, var)
  ELSE TRUE

IsCurrentlyFree(w, var) == IsInteger(w, var) /\ w[var].ignored

Min(w, var) ==
  IF IsBoolean(w, var) THEN (IF w[var].assignment = "true" THEN 1 ELSE 0)
  ELSE IF IsInteger(w, var) THEN ViewLowerBound(w, var)
  ELSE 0

Max(w, var) ==
  IF IsBoolean(w, var) THEN (IF w[var].assignment = "false" THEN 0 ELSE 1)
  ELSE IF IsInteger(w, var) THEN ViewUpperBound(w, var)
  ELSE 0

\* CpModelView::GreaterOrEqual.
ViewGreaterOrEqual(w, var, value) ==
  IF IsBoolean(w, var)
  THEN (IF value = 1 THEN BooleanOrIntegerLiteral(MappingLiteral(var), NoIntegerLiteral)
        ELSE NullLiteral)
  ELSE IF IsInteger(w, var)
  THEN BooleanOrIntegerLiteral(kNoLiteralIndex, GreaterOrEqual(MappingInteger(var), value))
  ELSE NullLiteral

\* CpModelView::LowerOrEqual; IntegerLiteral::LowerOrEqual(v, k) is
\* NegationOf(v) >= -k.
ViewLowerOrEqual(w, var, value) ==
  IF IsBoolean(w, var)
  THEN (IF value = 0 THEN BooleanOrIntegerLiteral(Negated(MappingLiteral(var)), NoIntegerLiteral)
        ELSE NullLiteral)
  ELSE IF IsInteger(w, var)
  THEN BooleanOrIntegerLiteral(kNoLiteralIndex,
                               GreaterOrEqual(NegationOf(MappingInteger(var)), -value))
  ELSE NullLiteral

\* IntegerEncoder::RawDomainEncoding: the pairs (value, literal) of the full
\* encoding, in the order the encoder holds them.
ValueLiteralPair(value, literal) == [value |-> value, literal |-> literal]
RawDomainEncoding(w, var) ==
  [i \in 1..Len(w[var].encoding) |->
     ValueLiteralPair(w[var].encoding[i], EncodingLiteral(var, w[var].encoding[i]))]

\* The literal of (var == value) is assigned when the value is excluded or
\* is the only one left.
EncodingLiteralIsAssigned(w, var, value) ==
  value \notin w[var].possible \/ Cardinality(w[var].possible) = 1

\* std::sort with ValueLiteralPair::CompareByValue; the values are distinct.
RECURSIVE SortedByValue(_)
SortedByValue(encoding) ==
  IF encoding = << >> THEN << >>
  ELSE LET least == CHOOSE i \in 1..Len(encoding) :
                      \A j \in 1..Len(encoding) : encoding[i].value <= encoding[j].value
       IN <<encoding[least]>>
          \o SortedByValue([i \in 1..(Len(encoding) - 1) |->
                              IF i < least THEN encoding[i] ELSE encoding[i + 1]])

\* A MedianValue that takes the upper median of the unassigned literals.
UpperMedianValue(w, var) ==
  IF IsBoolean(w, var)
  THEN BooleanOrIntegerLiteral(Negated(MappingLiteral(var)), NoIntegerLiteral)
  ELSE IF IsInteger(w, var)
  THEN LET encoding == SortedByValue(RawDomainEncoding(w, var))
           unassigned_sorted_literals ==
             SelectSeq(encoding, LAMBDA p : ~EncodingLiteralIsAssigned(w, var, p.value))
           target == Len(unassigned_sorted_literals) \div 2
       IN BooleanOrIntegerLiteral(unassigned_sorted_literals[target + 1].literal, NoIntegerLiteral)
  ELSE NullLiteral

\* CpModelView::MedianValue; target is 0-based. The loader fully encodes
\* the variables of a strategy that selects the median value.
MedianValue(w, var) ==
  IF IsBoolean(w, var)
  THEN BooleanOrIntegerLiteral(Negated(MappingLiteral(var)), NoIntegerLiteral)
  ELSE IF IsInteger(w, var)
  THEN LET encoding == SortedByValue(RawDomainEncoding(w, var))
           unassigned_sorted_literals ==
             SelectSeq(encoding, LAMBDA p : ~EncodingLiteralIsAssigned(w, var, p.value))
           target == (Len(unassigned_sorted_literals) + 1) \div 2 - 1
       IN BooleanOrIntegerLiteral(unassigned_sorted_literals[target + 1].literal, NoIntegerLiteral)
  ELSE NullLiteral

\* ---------------------------------------- ConstructSearchStrategyInternal
\* std::numeric_limits<int64_t>::max(), as far as the integers of TLC go;
\* the scores of the model stay far below it.
kint64max == 2147483647

VarValue(ref, value) == [ref |-> ref, value |-> value]

DecisionStrategyProto(variables, transformations, variable_selection_strategy,
                      domain_reduction_strategy) ==
  [variables |-> variables, transformations |-> transformations,
   variable_selection_strategy |-> variable_selection_strategy,
   domain_reduction_strategy |-> domain_reduction_strategy]

AffineTransformation(index, positive_coeff, offset) ==
  [index |-> index, positive_coeff |-> positive_coeff, offset |-> offset]

\* "while (t_index < size && transformations(t_index).index() < i) ++t_index".
RECURSIVE SkipTransformations(_, _, _)
SkipTransformations(transformations, t_index, i) ==
  IF t_index < Len(transformations) /\ transformations[t_index + 1].index < i
  THEN SkipTransformations(transformations, t_index + 1, i)
  ELSE t_index

\* The switch on variable_selection_strategy().
SelectionValue(variable_selection_strategy, coeff, offset, lb, ub) ==
  CASE variable_selection_strategy = "CHOOSE_FIRST" -> 0
    [] variable_selection_strategy = "CHOOSE_LOWEST_MIN" -> coeff * lb + offset
    [] variable_selection_strategy = "CHOOSE_HIGHEST_MAX" -> -(coeff * ub + offset)
    [] variable_selection_strategy = "CHOOSE_MIN_DOMAIN_SIZE" -> coeff * (ub - lb + 1)
    [] variable_selection_strategy = "CHOOSE_MAX_DOMAIN_SIZE" -> (-coeff) * (ub - lb + 1)

\* The state of the loop over strategy.variables(); i and t_index are 0-based.
NoCandidate == [candidate |-> 0, candidate_value |-> kint64max, active_refs |-> << >>, t_index |-> 0]

\* One turn of the loop that keeps the last variable of the least value.
SelectLast(params, w, strategy, i, st) ==
  LET ref == strategy.variables[i + 1]
      var == PositiveRef(ref)
      t_index == SkipTransformations(strategy.transformations, st.t_index, i)
      transformed == /\ t_index < Len(strategy.transformations)
                     /\ strategy.transformations[t_index + 1].index = i
      coeff == IF transformed THEN strategy.transformations[t_index + 1].positive_coeff ELSE 1
      offset == IF transformed THEN strategy.transformations[t_index + 1].offset ELSE 0
      lb == IF RefIsPositive(ref) THEN Min(w, var) ELSE -Max(w, var)
      ub == IF RefIsPositive(ref) THEN Max(w, var) ELSE -Min(w, var)
      value == SelectionValue(strategy.variable_selection_strategy, coeff, offset, lb, ub)
      better == value <= st.candidate_value
      candidate_value == IF better THEN value ELSE st.candidate_value
  IN [candidate |-> IF better THEN ref ELSE st.candidate,
      candidate_value |-> candidate_value,
      active_refs |-> IF /\ params.randomize_search
                         /\ value <= candidate_value + params.search_randomization_tolerance
                      THEN Append(st.active_refs, VarValue(ref, value))
                      ELSE st.active_refs,
      t_index |-> t_index]

\* One turn of the loop for a variable that is neither fixed nor free.
Select(params, w, strategy, i, st) ==
  LET ref == strategy.variables[i + 1]
      var == PositiveRef(ref)
      t_index == SkipTransformations(strategy.transformations, st.t_index, i)
      transformed == /\ t_index < Len(strategy.transformations)
                     /\ strategy.transformations[t_index + 1].index = i
      coeff == IF transformed THEN strategy.transformations[t_index + 1].positive_coeff ELSE 1
      offset == IF transformed THEN strategy.transformations[t_index + 1].offset ELSE 0
      lb == IF RefIsPositive(ref) THEN Min(w, var) ELSE -Max(w, var)
      ub == IF RefIsPositive(ref) THEN Max(w, var) ELSE -Min(w, var)
      value == SelectionValue(strategy.variable_selection_strategy, coeff, offset, lb, ub)
      better == value < st.candidate_value
      candidate_value == IF better THEN value ELSE st.candidate_value
  IN [candidate |-> IF better THEN ref ELSE st.candidate,
      candidate_value |-> candidate_value,
      active_refs |-> IF /\ params.randomize_search
                         /\ value <= candidate_value + params.search_randomization_tolerance
                      THEN Append(st.active_refs, VarValue(ref, value))
                      ELSE st.active_refs,
      t_index |-> t_index]

\* A skip that lets the fixed variables through.
SkipsFree(w, var) == IsCurrentlyFree(w, var)

\* "if (view.IsFixed(var) || view.IsCurrentlyFree(var)) continue".
Skips(w, var) == IsFixed(w, var) \/ IsCurrentlyFree(w, var)

RECURSIVE VariablesLoop(_, _, _, _, _)
VariablesLoop(params, w, strategy, i, st) ==
  IF i >= Len(strategy.variables) THEN st
  ELSE IF Skips(w, PositiveRef(strategy.variables[i + 1]))
  THEN VariablesLoop(params, w, strategy, i + 1, st)
  ELSE IF strategy.variable_selection_strategy = "CHOOSE_FIRST" /\ ~params.randomize_search
  THEN Select(params, w, strategy, i, st)
  ELSE VariablesLoop(params, w, strategy, i + 1, Select(params, w, strategy, i, st))

\* The references absl::Uniform can draw: those of active_refs within the
\* tolerance of the least value, or the candidate without randomization.
Winners(params, st) ==
  IF params.randomize_search
  THEN {st.active_refs[k].ref :
          k \in {k \in 1..Len(st.active_refs) :
                   st.active_refs[k].value
                     <= st.candidate_value + params.search_randomization_tolerance}}
  ELSE {st.candidate}

\* The selection for a negated reference.
Swapped(selection) ==
  CASE selection = "SELECT_MIN_VALUE" -> "SELECT_MAX_VALUE"
    [] selection = "SELECT_MAX_VALUE" -> "SELECT_MIN_VALUE"
    [] selection = "SELECT_LOWER_HALF" -> "SELECT_UPPER_HALF"
    [] selection = "SELECT_UPPER_HALF" -> "SELECT_LOWER_HALF"
    [] OTHER -> selection

\* A reduction that applies the selection as declared to a negated reference.
ReductionWithoutSwap(w, domain_reduction_strategy, candidate) ==
  LET selection == domain_reduction_strategy
      var == PositiveRef(candidate)
      lb == Min(w, var)
      ub == Max(w, var)
  IN CASE selection = "SELECT_MIN_VALUE" -> ViewLowerOrEqual(w, var, lb)
       [] selection = "SELECT_MAX_VALUE" -> ViewGreaterOrEqual(w, var, ub)
       [] selection = "SELECT_LOWER_HALF" -> ViewLowerOrEqual(w, var, lb + (ub - lb) \div 2)
       [] selection = "SELECT_UPPER_HALF" -> ViewGreaterOrEqual(w, var, ub - (ub - lb) \div 2)
       [] selection = "SELECT_MEDIAN_VALUE" -> MedianValue(w, var)

\* The switch on the domain reduction strategy; ub - lb is not negative, so
\* the division of C++ is the one of TLA+.
Reduction(w, domain_reduction_strategy, candidate) ==
  LET selection == IF RefIsPositive(candidate) THEN domain_reduction_strategy
                   ELSE Swapped(domain_reduction_strategy)
      var == PositiveRef(candidate)
      lb == Min(w, var)
      ub == Max(w, var)
  IN CASE selection = "SELECT_MIN_VALUE" -> ViewLowerOrEqual(w, var, lb)
       [] selection = "SELECT_MAX_VALUE" -> ViewGreaterOrEqual(w, var, ub)
       [] selection = "SELECT_LOWER_HALF" -> ViewLowerOrEqual(w, var, lb + (ub - lb) \div 2)
       [] selection = "SELECT_UPPER_HALF" -> ViewGreaterOrEqual(w, var, ub - (ub - lb) \div 2)
       [] selection = "SELECT_MEDIAN_VALUE" -> MedianValue(w, var)

\* What a call of the closure leaves: the literal, and for the observer the
\* strategy (0 when none had a candidate) and the reference it chose.
Decided(literal, strategy, candidate) ==
  [literal |-> literal, strategy |-> strategy, candidate |-> candidate, called |-> TRUE]
NoDecision == [literal |-> NullLiteral, strategy |-> 0, candidate |-> 0, called |-> FALSE]

\* The closure: the set of what it can return, the draw being free; k is
\* the position in strategies.
RECURSIVE SearchStrategyInternal(_, _, _, _)
SearchStrategyInternal(strategies, params, w, k) ==
  IF k > Len(strategies) THEN {Decided(NullLiteral, 0, 0)}
  ELSE LET st == VariablesLoop(params, w, strategies[k], 0, NoCandidate)
       IN IF st.candidate_value = kint64max
          THEN SearchStrategyInternal(strategies, params, w, k + 1)
          ELSE {Decided(Reduction(w, strategies[k].domain_reduction_strategy, c), k, c) :
                  c \in Winners(params, st)}

\* ConstructUserSearchStrategy: the strategies of the model, copied.
UserSearchStrategy(proto, params, w) == SearchStrategyInternal(proto.search_strategy, params, w, 1)

\* ------------------------------------------------- the rest of the solver
\* The values a proto variable can still take, 0 and 1 for a Boolean one.
Values(w, var) ==
  IF IsInteger(w, var) THEN w[var].possible
  ELSE IF IsBoolean(w, var)
  THEN (CASE w[var].assignment = "true" -> {1}
          [] w[var].assignment = "false" -> {0}
          [] OTHER -> {0, 1})
  ELSE {0}

EncodingLiterals(w, var) == {EncodingLiteral(var, value) : value \in Range(w[var].encoding)}

\* Whether the literal is about the proto variable.
Concerns(literal, w, var) ==
  IF IsInteger(w, var)
  THEN \/ literal.integer_literal.var \in {MappingInteger(var), NegationOf(MappingInteger(var))}
       \/ \E l \in EncodingLiterals(w, var) : literal.boolean_literal_index \in {l, Negated(l)}
  ELSE /\ IsBoolean(w, var)
       /\ literal.boolean_literal_index \in {MappingLiteral(var), Negated(MappingLiteral(var))}

\* Whether a literal about the proto variable is true when the variable
\* takes the value x.
IsTrueAt(literal, w, var, x) ==
  IF IsBoolean(w, var)
  THEN (IF literal.boolean_literal_index = MappingLiteral(var) THEN x = 1 ELSE x = 0)
  ELSE IF literal.integer_literal.var = MappingInteger(var)
  THEN x >= literal.integer_literal.bound
  ELSE IF literal.integer_literal.var = NegationOf(MappingInteger(var))
  THEN -x >= literal.integer_literal.bound
  ELSE IF literal.boolean_literal_index % 2 = 0
  THEN literal.boolean_literal_index = EncodingLiteral(var, x)
  ELSE literal.boolean_literal_index # Negated(EncodingLiteral(var, x))

\* The view once the trail holds the literal with the truth value given.
Assigned(w, literal, truth) ==
  [var \in DOMAIN w |->
     IF ~Concerns(literal, w, var) THEN w[var]
     ELSE LET left == {x \in Values(w, var) : IsTrueAt(literal, w, var, x) = truth}
          IN IF IsInteger(w, var) THEN [w[var] EXCEPT !.possible = left]
             ELSE [w[var] EXCEPT !.assignment = IF left = {1} THEN "true" ELSE "false"]]

\* -------------------------------------------- ConstructFixedSearchStrategy
ModelHasSchedulingConstraints(proto) ==
  \E i \in 1..Len(proto.constraints) : proto.constraints[i] \in {"no_overlap", "cumulative"}

\* The heuristics of integer_search.h, by name and decision list.
Heuristic(kind, decisions) == [kind |-> kind, decisions |-> decisions]

\* A decision list that keeps the negation of the objective variable.
DecisionsAsMapped(variable_mapping, objective_var, i) ==
  SelectSeq(variable_mapping, LAMBDA var : var # kNoIntegerVariable)

\* "for (const IntegerVariable var : variable_mapping)".
RECURSIVE Decisions(_, _, _)
Decisions(variable_mapping, objective_var, i) ==
  IF i > Len(variable_mapping) THEN << >>
  ELSE LET var == variable_mapping[i]
           rest == Decisions(variable_mapping, objective_var, i + 1)
       IN IF var = kNoIntegerVariable THEN rest
          ELSE IF objective_var # kNoIntegerVariable /\ var = NegationOf(objective_var)
          THEN <<objective_var>> \o rest
          ELSE <<var>> \o rest

\* ConstructFixedSearchStrategy: the heuristics SequentialSearch receives.
FixedSearchStrategy(proto, variable_mapping, objective_var, params) ==
  (IF params.search_branching # "PARTIAL_FIXED_SEARCH"
   THEN <<Heuristic("ConstructUserSearchStrategy", << >>)>> ELSE << >>)
  \o (IF ModelHasSchedulingConstraints(proto)
      THEN <<Heuristic("SchedulingSearchHeuristic", << >>)>> ELSE << >>)
  \o (IF params.instantiate_all_variables
      THEN <<Heuristic("FirstUnassignedVarAtItsMinHeuristic",
                       Decisions(variable_mapping, objective_var, 1))>>
      ELSE << >>)

\* ---------------------------------------------- GetDiverseSetOfParameters
\* absl::StrCat(prefix, index).
StrCat(prefix, index) == prefix \o ToString(index)

\* The named strategies built from base_params, before the user's.
BuiltInStrategies(base_params) ==
  LET core == [base_params EXCEPT !.search_branching = "AUTOMATIC_SEARCH",
                                  !.optimize_with_core = TRUE]
      probing == [base_params EXCEPT !.search_branching = "AUTOMATIC_SEARCH",
                                     !.use_probing_search = TRUE]
      quick == [base_params EXCEPT !.search_branching = "PORTFOLIO_WITH_QUICK_RESTART_SEARCH"]
  IN [name \in {"default", "no_lp", "default_lp", "max_lp", "core", "core_default_lp",
                "core_max_lp", "max_hs", "lb_tree_search", "probing", "probing_no_lp",
                "probing_max_lp", "auto", "fixed", "quick_restart", "quick_restart_no_lp",
                "quick_restart_max_lp", "reduced_costs", "pseudo_costs", "less_encoding"} |->
       CASE name = "default" -> base_params
         [] name = "no_lp" -> [base_params EXCEPT !.linearization_level = 0]
         [] name = "default_lp" -> [base_params EXCEPT !.linearization_level = 1]
         [] name = "max_lp" -> [base_params EXCEPT !.linearization_level = 2]
         [] name = "core" -> [core EXCEPT !.linearization_level = 0]
         [] name = "core_default_lp" -> [core EXCEPT !.linearization_level = 1]
         [] name = "core_max_lp" -> [core EXCEPT !.linearization_level = 2]
         [] name = "max_hs" -> [core EXCEPT !.optimize_with_max_hs = TRUE]
         [] name = "lb_tree_search" ->
              [base_params EXCEPT !.optimize_with_lb_tree_search = TRUE,
                                  !.linearization_level = 2]
         [] name = "probing" -> probing
         [] name = "probing_no_lp" -> [probing EXCEPT !.linearization_level = 0]
         [] name = "probing_max_lp" -> [probing EXCEPT !.linearization_level = 2]
         [] name = "auto" -> [base_params EXCEPT !.search_branching = "AUTOMATIC_SEARCH"]
         [] name = "fixed" -> [base_params EXCEPT !.search_branching = "FIXED_SEARCH"]
         [] name = "quick_restart" -> quick
         [] name = "quick_restart_no_lp" -> [quick EXCEPT !.linearization_level = 0]
         [] name = "quick_restart_max_lp" -> [quick EXCEPT !.linearization_level = 2]
         [] name = "reduced_costs" ->
              [base_params EXCEPT !.linearization_level = 2, !.search_branching = "LP_SEARCH"]
         [] name = "pseudo_costs" ->
              [base_params EXCEPT !.linearization_level = 2,
                                  !.search_branching = "PSEUDO_COST_SEARCH"]
         [] name = "less_encoding" -> [base_params EXCEPT !.boolean_encoding_level = 0]]

\* "strategies[params.name()] = params" for the subsolver_params, in order.
RECURSIVE WithUserStrategies(_, _, _)
WithUserStrategies(strategies, subsolver_params, i) ==
  IF i > Len(subsolver_params) THEN strategies
  ELSE WithUserStrategies(
         [name \in DOMAIN strategies \cup {subsolver_params[i].name} |->
            IF name = subsolver_params[i].name THEN subsolver_params[i] ELSE strategies[name]],
         subsolver_params, i + 1)

Strategies(base_params) ==
  WithUserStrategies(BuiltInStrategies(base_params), base_params.subsolver_params, 1)

DefaultNames ==
  <<"default_lp", "fixed", "less_encoding", "no_lp", "max_lp", "core", "reduced_costs",
    "pseudo_costs", "quick_restart", "quick_restart_no_lp", "lb_tree_search", "probing">>

\* The names, before the ignored ones are removed.
Names(base_params, proto) ==
  (IF base_params.subsolvers = << >> THEN DefaultNames
   ELSE [i \in 1..Len(base_params.subsolvers) |->
           IF base_params.subsolvers[i] = "core_or_no_lp"
           THEN (IF ~proto.has_objective \/ proto.objective_vars_size <= 1
                 THEN "no_lp" ELSE "core")
           ELSE base_params.subsolvers[i]])
  \o base_params.extra_subsolvers

\* A filter that lets every strategy through.
KeepsAll(name, params, proto) == FALSE

\* "Do some filtering": whether the strategy is dropped.
Filtered(name, params, proto) ==
  \/ /\ ~(proto.search_strategy # << >> \/ ModelHasSchedulingConstraints(proto))
     /\ params.search_branching = "FIXED_SEARCH"
  \/ IF proto.has_objective
     THEN \/ proto.objective_vars_size <= 1 /\ params.optimize_with_core
          \/ name = "less_encoding"
          \/ params.optimize_with_lb_tree_search /\ params.interleave_search
     ELSE \/ params.optimize_with_lb_tree_search
          \/ params.optimize_with_core
          \/ params.search_branching = "LP_SEARCH"
          \/ params.search_branching = "PSEUDO_COST_SEARCH"

\* "for (const std::string& name : names)": the variants with name and seed.
RECURSIVE NamedVariants(_, _, _, _, _, _)
NamedVariants(strategies, names, base_params, proto, i, variants) ==
  IF i > Len(names) THEN variants
  ELSE IF names[i] \notin DOMAIN strategies
  THEN NamedVariants(strategies, names, base_params, proto, i + 1, variants)
  ELSE IF Filtered(names[i], strategies[names[i]], proto)
  THEN NamedVariants(strategies, names, base_params, proto, i + 1, variants)
  ELSE NamedVariants(strategies, names, base_params, proto, i + 1,
         Append(variants, [strategies[names[i]] EXCEPT
                             !.name = names[i],
                             !.random_seed = base_params.random_seed + Len(variants) + 1]))

Resize(variants, target) ==
  IF Len(variants) > target THEN SubSeq(variants, 1, target) ELSE variants

\* A padding that leaves the seed of base_params to the randomized variants.
RECURSIVE PaddedWithBaseSeed(_, _, _, _, _)
PaddedWithBaseSeed(variants, target, index, base_params, proto) ==
  IF Len(variants) >= target THEN variants
  ELSE LET randomized == [base_params EXCEPT
                            !.randomize_search = TRUE,
                            !.search_randomization_tolerance = index]
           new_params ==
             IF index % 2 = 0
             THEN [randomized EXCEPT !.search_branching = "PORTFOLIO_WITH_QUICK_RESTART_SEARCH",
                                     !.name = StrCat("random_quick_restart_", index)]
             ELSE [randomized EXCEPT !.search_branching =
                                        IF proto.search_strategy = << >>
                                        THEN "AUTOMATIC_SEARCH" ELSE "FIXED_SEARCH",
                                     !.name = StrCat("random_", index)]
       IN PaddedWithBaseSeed(Append(variants, new_params), target, index + 1, base_params,
                             proto)

\* "while (result.size() < target)": the randomized variants.
RECURSIVE Padded(_, _, _, _, _)
Padded(variants, target, index, base_params, proto) ==
  IF Len(variants) >= target THEN variants
  ELSE LET randomized == [base_params EXCEPT
                            !.randomize_search = TRUE,
                            !.search_randomization_tolerance = index,
                            !.random_seed = base_params.random_seed + Len(variants) + 1]
           new_params ==
             IF index % 2 = 0
             THEN [randomized EXCEPT !.search_branching = "PORTFOLIO_WITH_QUICK_RESTART_SEARCH",
                                     !.name = StrCat("random_quick_restart_", index)]
             ELSE [randomized EXCEPT !.search_branching =
                                        IF proto.search_strategy = << >>
                                        THEN "AUTOMATIC_SEARCH" ELSE "FIXED_SEARCH",
                                     !.name = StrCat("random_", index)]
       IN Padded(Append(variants, new_params), target, index + 1, base_params, proto)

Max2(a, b) == IF a >= b THEN a ELSE b

\* A cut that never applies.
CutNever(variants, target, base_params) == variants

\* "if (!base_params.interleave_search() && result.size() > target)".
Cut(variants, target, base_params) ==
  IF ~base_params.interleave_search THEN Resize(variants, target) ELSE variants

\* After the loop on the names.
Completed(variants, base_params, proto) ==
  IF proto.has_objective
  THEN Cut(variants, Max2(1, base_params.num_workers - base_params.min_num_lns_workers),
           base_params)
  ELSE LET target ==
             IF ~base_params.interleave_search
                /\ (base_params.use_rins_lns \/ base_params.use_feasibility_pump)
             THEN Max2(1, base_params.num_workers - 1)
             ELSE base_params.num_workers
       IN Padded(Cut(variants, target, base_params), target, 1, base_params, proto)

DiverseSetOfParameters(base_params, proto) ==
  Completed(
    NamedVariants(Strategies(base_params),
                  SelectSeq(Names(base_params, proto),
                            LAMBDA name : name \notin Range(base_params.ignore_subsolvers)),
                  base_params, proto, 1, << >>),
    base_params, proto)

\* ------------------------------------------------------------------ Init
\* The models loaded.  Each has four variables x, y, z, w (0, 2, 4, 6) on
\* 0..MaxValue and says which AddArc calls, which literals and which bound
\* changes the solver makes on it:
\*   cycle:    x+1<=y, y+1<=z, z+1<=x, the last arc also in a version
\*             guarded by the literal 0;
\*   chain:    x+2<=y, y+3<=z, and the precedences x+1<=y, x+2<=y, x+3<=y
\*             added only if new;
\*   optional: y and z optional with one shared is-ignored literal 2 (the
\*             start and the end of one optional interval), arcs between
\*             them and from x, and x+1<=w;
\*   offset:   x + z <= y with the variable offset z, y+MaxValue<=x guarded
\*             by the literal 0 and x+1<=y guarded by its negation, the
\*             domain of y missing the value 1, and the precedence x+1<=y
\*             added only if new.
Interval == [v \in IntegerVariables |-> IF v % 2 = 0 THEN 0..MaxValue ELSE {-x : x \in 0..MaxValue}]
WithHole == [Interval EXCEPT ![2] = @ \ {1}, ![3] = @ \ {-1}]
NoneOptional == [v \in IntegerVariables |-> kNoLiteralIndex]
IntervalOptional == [v \in IntegerVariables |-> IF v \in {2, 3, 4, 5} THEN 2 ELSE kNoLiteralIndex]
CycleModel ==
  [name |-> "cycle", domains |-> Interval, is_ignored |-> NoneOptional,
   inputs |-> { Input(0, 2, 1, kNoIntegerVariable, << >>),
                Input(2, 4, 1, kNoIntegerVariable, << >>),
                Input(4, 0, 1, kNoIntegerVariable, << >>),
                Input(4, 0, 1, kNoIntegerVariable, <<0>>) },
   precedences |-> {}, relations |-> {}, queries |-> {},
   literals |-> {0},
   bounds |-> {GreaterOrEqual(0, 1), GreaterOrEqual(1, -2)}]
ChainModel ==
  [name |-> "chain", domains |-> Interval, is_ignored |-> NoneOptional,
   inputs |-> { Input(0, 2, 2, kNoIntegerVariable, << >>),
                Input(2, 4, 3, kNoIntegerVariable, << >>) },
   precedences |-> { Input(0, 2, 1, kNoIntegerVariable, << >>),
                     Input(0, 2, 2, kNoIntegerVariable, << >>),
                     Input(0, 2, 3, kNoIntegerVariable, << >>) },
   relations |-> {}, queries |-> {},
   literals |-> {0},
   bounds |-> {GreaterOrEqual(0, 1)}]
OptionalModel ==
  [name |-> "optional", domains |-> Interval, is_ignored |-> IntervalOptional,
   inputs |-> { Input(0, 2, 1, kNoIntegerVariable, << >>),
                Input(2, 4, 1, kNoIntegerVariable, << >>),
                Input(4, 2, 1, kNoIntegerVariable, << >>),
                Input(0, 6, 1, kNoIntegerVariable, << >>) },
   precedences |-> {}, relations |-> {}, queries |-> {},
   literals |-> {2, 3},
   bounds |-> {GreaterOrEqual(0, MaxValue)}]
OffsetModel ==
  [name |-> "offset", domains |-> WithHole, is_ignored |-> NoneOptional,
   inputs |-> { Input(0, 2, 0, 4, << >>),
                Input(2, 0, MaxValue, kNoIntegerVariable, <<0>>),
                Input(0, 2, 1, kNoIntegerVariable, <<1>>) },
   precedences |-> { Input(0, 2, 1, kNoIntegerVariable, << >>) },
   relations |-> {}, queries |-> {},
   literals |-> {0, 1},
   bounds |-> {GreaterOrEqual(4, 1), GreaterOrEqual(4, MaxValue), GreaterOrEqual(1, 1 - MaxValue)}]
Configurations == {CycleModel, ChainModel, OptionalModel, OffsetModel}

\* The model of the clauses: x + 1 <= z guarded by a, y + 2 <= z guarded by
\* b, u <= z guarded by the negation of a, x + 3 <= z guarded by a once more,
\* x + 2 <= u guarded by b, y + 1 + w <= z guarded by b (w the offset
\* variable), and x + 1 <= y guarded by a and b.
ClauseModel ==
  [name |-> "clauses", domains |-> Interval, is_ignored |-> NoneOptional,
   inputs |-> { Input(0, 4, 1, kNoIntegerVariable, <<0>>),
                Input(2, 4, 2, kNoIntegerVariable, <<2>>),
                Input(6, 4, 0, kNoIntegerVariable, <<1>>),
                Input(0, 4, 3, kNoIntegerVariable, <<0>>),
                Input(0, 6, 2, kNoIntegerVariable, <<2>>),
                Input(2, 4, 1, 8, <<2>>),
                Input(0, 2, 1, kNoIntegerVariable, <<0, 2>>) },
   precedences |-> {}, relations |-> {}, queries |-> {},
   literals |-> {0},
   bounds |-> {}]

\* The model of the conditional relations: x + 1 <= y guarded by a,
\* x + 2 <= y guarded by b, x + 3 <= y guarded by a once more, and
\* y + 1 + w <= x guarded by b (w the offset variable).
ConditionalModel ==
  [name |-> "conditional", domains |-> Interval, is_ignored |-> NoneOptional,
   inputs |-> { Input(0, 2, 1, kNoIntegerVariable, <<0>>),
                Input(0, 2, 2, kNoIntegerVariable, <<2>>),
                Input(0, 2, 3, kNoIntegerVariable, <<0>>),
                Input(2, 0, 1, 4, <<2>>) },
   precedences |-> {}, relations |-> {}, queries |-> {},
   literals |-> {0, 2},
   bounds |-> {GreaterOrEqual(0, 1)}]

\* The model of the presence literals: x + 2 <= y guarded by a and b,
\* y + 1 + w <= x guarded by b (w the offset variable), and x + 3 <= y
\* guarded by the negations of a and b.
PresenceModel ==
  [name |-> "presence", domains |-> Interval, is_ignored |-> NoneOptional,
   inputs |-> { Input(0, 2, 2, kNoIntegerVariable, <<0, 2>>),
                Input(2, 0, 1, 4, <<2>>),
                Input(0, 2, 3, kNoIntegerVariable, <<1, 3>>) },
   precedences |-> {}, relations |-> {}, queries |-> {},
   literals |-> {0, 2},
   bounds |-> {GreaterOrEqual(0, MaxValue - 1), GreaterOrEqual(4, MaxValue)}]

\* The model of the queries on the active arcs: z in -MaxValue..0, w in
\* 0..3, v optional with the is-ignored literal 2; x + w <= z with the
\* variable offset w (six arcs of offset 0), x <= z once more, y-1 <= z
\* guarded by the literal 3 (v is not ignored) and x <= v; the queries on
\* (x, w, -z) and (y, x, x).
QueryDomains ==
  [Interval EXCEPT ![4] = (-MaxValue)..0, ![5] = 0..MaxValue, ![6] = 0..3, ![7] = (-3)..0]
QueryOptional == [v \in IntegerVariables |-> IF v \in {8, 9} THEN 2 ELSE kNoLiteralIndex]
QueriesModel ==
  [name |-> "queries", domains |-> QueryDomains, is_ignored |-> QueryOptional,
   inputs |-> { Input(0, 4, 0, 6, << >>),
                Input(0, 4, 0, kNoIntegerVariable, << >>),
                Input(2, 4, -1, kNoIntegerVariable, <<3>>),
                Input(0, 8, 0, kNoIntegerVariable, << >>) },
   precedences |-> {}, relations |-> {},
   queries |-> { <<0, 6, 5>>, <<2, 0, 0>> },
   literals |-> {2, 3}, bounds |-> {}]

\* The model of the relation store: x in 0..2 and v in 3..MaxValue, the
\* relations x+1<=z, y<=z, x<=w, z+1<=v, w<=v, z<=y (a cycle with y<=z),
\* -z+1<=y, x+1<=v (implied by the bounds), x<=-x (one variable), v-1<=x
\* (negative offset), and the queries on (x, y, z) and (x, y).
Relation(tail, head, offset) == Input(tail, head, offset, kNoIntegerVariable, << >>)
RelationDomains ==
  [Interval EXCEPT ![0] = 0..2, ![1] = (-2)..0, ![8] = 3..MaxValue, ![9] = (-MaxValue)..(-3)]
RelationsModel ==
  [name |-> "relations", domains |-> RelationDomains, is_ignored |-> NoneOptional,
   inputs |-> {}, precedences |-> {},
   relations |-> { Relation(0, 4, 1), Relation(2, 4, 0), Relation(0, 6, 0), Relation(4, 8, 1),
                   Relation(6, 8, 0), Relation(4, 2, 0), Relation(5, 2, 1), Relation(0, 8, 1),
                   Relation(0, 1, 0), Relation(8, 0, -1) },
   queries |-> { <<0, 2, 4>>, <<0, 2>> },
   literals |-> {}, bounds |-> {}]
\* A vector that holds an entry of an earlier use.
StaleOutput == <<FullPrecedence(8, <<0, 1>>, <<0, 0>>)>>

\* The search strategies: what the model and the parameters are before any
\* of them is loaded.
SatParameters ==
  [name |-> "", search_branching |-> "AUTOMATIC_SEARCH", optimize_with_core |-> FALSE,
   optimize_with_max_hs |-> FALSE, optimize_with_lb_tree_search |-> FALSE,
   linearization_level |-> 1, use_probing_search |-> FALSE, boolean_encoding_level |-> 1,
   interleave_search |-> FALSE, randomize_search |-> FALSE,
   search_randomization_tolerance |-> 0, random_seed |-> 1,
   instantiate_all_variables |-> TRUE, num_workers |-> 0, min_num_lns_workers |-> 2,
   use_rins_lns |-> TRUE, use_feasibility_pump |-> TRUE,
   subsolvers |-> << >>, extra_subsolvers |-> << >>, ignore_subsolvers |-> << >>,
   subsolver_params |-> << >>]

CpModelProto(search_strategy, constraints, has_objective, objective_vars_size) ==
  [search_strategy |-> search_strategy, constraints |-> constraints,
   has_objective |-> has_objective, objective_vars_size |-> objective_vars_size]

NoHeuristics ==
  [called |-> FALSE, chain |-> << >>, variable_mapping |-> << >>,
   objective_var |-> kNoIntegerVariable]
NoResult == [called |-> FALSE, variants |-> << >>]

NoSearch ==
  /\ cp_model_proto = CpModelProto(<< >>, << >>, FALSE, 0)
  /\ parameters = SatParameters
  /\ view = << >>
  /\ decision = NoDecision
  /\ heuristics = NoHeuristics
  /\ result = NoResult

\* The model of the branching closure: proto variable 0 is an integer in
\* {1, 2, 5, 7, 9}, 1 an optional integer in 0..2, both fully encoded, 2 a
\* Boolean and 3 a variable the solver does not map.  The first strategy is
\* on 0 and 2, on their negations and 3, or on the negation of 1 and 0,
\* with an affine transformation or without; the second one is on 2, 1, 0.
ProtoVariables == 0..(NumProtoVars - 1)
IntegerProtoVariable(encoding, ignored) ==
  [kind |-> "integer", encoding |-> encoding, possible |-> Range(encoding),
   ignored |-> ignored, assignment |-> "unassigned"]
BooleanProtoVariable ==
  [kind |-> "boolean", encoding |-> << >>, possible |-> {}, ignored |-> FALSE,
   assignment |-> "unassigned"]
UnmappedProtoVariable == [BooleanProtoVariable EXCEPT !.kind = "none"]
SearchView(ignored) ==
  [var \in ProtoVariables |->
     CASE var = 0 -> IntegerProtoVariable(<<5, 1, ValueSpan, 2, 7>>, FALSE)
       [] var = 1 -> IntegerProtoVariable(<<2, 0, 1>>, ignored)
       [] var = 2 -> BooleanProtoVariable
       [] OTHER -> UnmappedProtoVariable]

VariableSelectionStrategies ==
  {"CHOOSE_FIRST", "CHOOSE_LOWEST_MIN", "CHOOSE_HIGHEST_MAX", "CHOOSE_MIN_DOMAIN_SIZE",
   "CHOOSE_MAX_DOMAIN_SIZE"}
DomainReductionStrategies ==
  {"SELECT_MIN_VALUE", "SELECT_MAX_VALUE", "SELECT_LOWER_HALF", "SELECT_UPPER_HALF",
   "SELECT_MEDIAN_VALUE"}
StrategyVariables ==
  { [variables |-> <<0, 2>>, transformations |-> << >>],
    [variables |-> <<0, 2>>, transformations |-> <<AffineTransformation(1, 4, -1)>>],
    [variables |-> <<NegatedRef(2), NegatedRef(0), 3>>, transformations |-> << >>],
    [variables |-> <<NegatedRef(1), 0>>,
     transformations |-> <<AffineTransformation(0, 3, 1), AffineTransformation(1, 1, -4)>>] }
FirstStrategies ==
  { DecisionStrategyProto(v.variables, v.transformations, selection, reduction) :
      v \in StrategyVariables, selection \in VariableSelectionStrategies,
      reduction \in DomainReductionStrategies }
SecondStrategy == DecisionStrategyProto(<<2, 1, 0>>, << >>, "CHOOSE_FIRST", "SELECT_MIN_VALUE")
SearchParameters ==
  { [SatParameters EXCEPT !.randomize_search = r.randomize,
                          !.search_randomization_tolerance = r.tolerance] :
      r \in { [randomize |-> FALSE, tolerance |-> 0], [randomize |-> TRUE, tolerance |-> 0],
              [randomize |-> TRUE, tolerance |-> MaxTolerance] } }

\* The models of the composer: with a search strategy or without, with a
\* scheduling constraint or without, with no objective or one of one or two
\* terms; the parameters with the subsolvers of the default list or given,
\* two of them defined by the user.
ComposerModels ==
  { CpModelProto(s, c, o > 0, o) :
      s \in {<< >>, <<SecondStrategy>>},
      c \in {<<"linear">>, <<"linear", "no_overlap">>, <<"cumulative">>},
      o \in 0..2 }
UserParameters ==
  << [SatParameters EXCEPT !.name = "my_fixed", !.search_branching = "FIXED_SEARCH"],
     [SatParameters EXCEPT !.name = "my_core", !.optimize_with_core = TRUE] >>
Subsolvers ==
  { [subsolvers |-> << >>, extra |-> << >>, ignore |-> << >>, user |-> << >>],
    [subsolvers |-> <<"core", "no_lp", "fixed">>, extra |-> << >>, ignore |-> << >>,
     user |-> << >>],
    [subsolvers |-> <<"core_or_no_lp", "my_fixed", "unknown", "my_core", "default">>,
     extra |-> <<"fixed", "less_encoding">>, ignore |-> <<"default">>, user |-> UserParameters],
    [subsolvers |-> << >>, extra |-> <<"max_hs", "auto">>, ignore |-> <<"no_lp", "fixed">>,
     user |-> << >>] }
ComposerParameters ==
  { [SatParameters EXCEPT !.search_branching = branching,
                          !.instantiate_all_variables = instantiate,
                          !.optimize_with_core = core,
                          !.interleave_search = interleave,
                          !.num_workers = workers,
                          !.min_num_lns_workers = lns,
                          !.use_rins_lns = helpers,
                          !.use_feasibility_pump = helpers,
                          !.subsolvers = s.subsolvers,
                          !.extra_subsolvers = s.extra,
                          !.ignore_subsolvers = s.ignore,
                          !.subsolver_params = s.user] :
      branching \in {"AUTOMATIC_SEARCH", "FIXED_SEARCH", "PARTIAL_FIXED_SEARCH"},
      instantiate \in BOOLEAN, core \in BOOLEAN, interleave \in BOOLEAN,
      workers \in 0..MaxWorkers, lns \in 0..MaxLnsWorkers, helpers \in BOOLEAN,
      s \in Subsolvers }
\* The variable mappings and the objective variable passed with them.
Mappings ==
  { [variable_mapping |-> <<0, 2, 4>>, objective_var |-> kNoIntegerVariable],
    [variable_mapping |-> <<0, 2, 4>>, objective_var |-> 0],
    [variable_mapping |-> <<0, 2, 4>>, objective_var |-> 2],
    [variable_mapping |-> <<0, kNoIntegerVariable, 2, 4>>, objective_var |-> 3],
    [variable_mapping |-> <<0, 2>>, objective_var |-> 6] }

\* The state after the construction of the propagator on the model c;
\* replay says whether the observer keeps replay_memo.
Loaded(c, replay) ==
  /\ model = [name |-> c.name, inputs |-> c.inputs, precedences |-> c.precedences,
              relations |-> c.relations, queries |-> c.queries, literals |-> c.literals,
              bounds |-> c.bounds, replay |-> replay]
  /\ domains_ = c.domains
  /\ is_ignored_literals_ = c.is_ignored
  /\ current_bound = [v \in IntegerVariables |-> SetMin(c.domains[v])]
  /\ trail = << >>
  /\ decision_starts = << >>
  /\ saved_bounds = << >>
  /\ arcs_ = << >>
  /\ potential_arcs_ = << >>
  /\ impacted_arcs_ = [v \in IntegerVariables |-> << >>]
  /\ impacted_potential_arcs_ = [v \in IntegerVariables |-> << >>]
  /\ literal_to_new_impacted_arcs_ = [l \in Literals |-> << >>]
  /\ arc_counts_ = << >>
  /\ conditional_relations_ = << >>
  /\ modified_vars_ = << >>
  /\ propagation_trail_index_ = 0
  /\ bf_queue_ = << >>
  /\ bf_in_queue_ = [v \in IntegerVariables |-> FALSE]
  /\ bf_parent_arc_of_ = [v \in IntegerVariables |-> kNoArcIndex]
  /\ bf_can_be_skipped_ = [v \in IntegerVariables |-> FALSE]
  /\ graph_ = << >>
  /\ arc_offset_ = << >>
  /\ is_built_ = FALSE
  /\ is_dag_ = FALSE
  /\ topological_order_ = << >>
  /\ all_relations_ = EmptyMap
  /\ output = << >>
  /\ var_to_degree_ = [v \in IntegerVariables |-> 0]
  /\ var_to_last_index_ = [v \in IntegerVariables |-> 0]
  /\ output_precedences = << >>
  /\ last_call = [op |-> "Init", ret |-> TRUE, conflict |-> NoConflict, enq_lits |-> << >>,
                  enq_bounds |-> << >>, cycles |-> << >>, deactivated |-> << >>,
                  overflows |-> << >>, presence_enqueues |-> << >>, consuming |-> 0,
                  after_consuming |-> 0, bf_steps |-> << >>, added |-> << >>,
                  input |-> NoInput,
                  repeat |-> FALSE]
  /\ check_failed = ""
  /\ num_arc_calls = 0
  /\ num_bound_changes = 0
  /\ index_history = [i \in 0..NumBooleans |->
                        IF i = 0 THEN [valid |-> TRUE, arc_counts_ |-> << >>,
                                       impacted_arcs_ |-> [v \in IntegerVariables |-> << >>]]
                        ELSE NoSnapshot]
  /\ external_path = << >>
  /\ replay_memo = [valid |-> FALSE, replayed |-> FALSE, path |-> << >>, narcs |-> 0,
                    bound |-> [v \in IntegerVariables |-> 0]]

Init == (\E c \in Configurations : Loaded(c, FALSE)) /\ NoSearch

\* The chain model with the observer of replays.
InitReplay == Loaded(ChainModel, TRUE) /\ NoSearch

\* The propagator of the queries model.
InitQueries == Loaded(QueriesModel, FALSE) /\ NoSearch

\* The relation store of the relations model.
InitRelations == Loaded(RelationsModel, FALSE) /\ NoSearch

\* The propagator of the presence model.
InitPresence == Loaded(PresenceModel, FALSE) /\ NoSearch

\* The propagator of the conditional model.
InitConditional == Loaded(ConditionalModel, FALSE) /\ NoSearch

\* The proto variables and the strategies of the search model.
InitSearch ==
  /\ Loaded(CycleModel, FALSE)
  /\ \E first \in FirstStrategies :
       cp_model_proto = CpModelProto(<<first, SecondStrategy>>, << >>, FALSE, 0)
  /\ parameters \in SearchParameters
  /\ \E ignored \in BOOLEAN : view = SearchView(ignored)
  /\ decision = NoDecision
  /\ heuristics = NoHeuristics
  /\ result = NoResult

\* The models and the parameters of the composer.
InitComposer ==
  /\ Loaded(CycleModel, FALSE)
  /\ cp_model_proto \in ComposerModels
  /\ parameters \in ComposerParameters
  /\ view = << >>
  /\ decision = NoDecision
  /\ heuristics = NoHeuristics
  /\ result = NoResult

\* --------------------------------------------------------------- actions
IsPrefix(p, q) == Len(p) <= Len(q) /\ SubSeq(q, 1, Len(p)) = p

AddArc(in) ==
  /\ check_failed = ""
  /\ num_arc_calls < MaxArcCalls
  /\ \E s \in {AddArcOn(Self, in.tail, in.head, in.offset, in.offset_var, in.presence_literals)} :
     LET created == Len(s.arcs_) # Len(arcs_)
     IN /\ Becomes(s)
        /\ last_call' = Call("AddArc", [s EXCEPT !.input = in])
        /\ num_arc_calls' = IF created THEN num_arc_calls + 1 ELSE num_arc_calls
        /\ index_history' = IF created /\ s.failed_check = ""
                            THEN [i \in 0..NumBooleans |->
                                    IF i = propagation_trail_index_ THEN IndexSnapshot(s)
                                    ELSE NoSnapshot]
                            ELSE index_history
  /\ UNCHANGED <<search_vars, domains_, is_ignored_literals_, model, decision_starts, saved_bounds,
                 num_bound_changes, external_path, replay_memo, relations_vars,
                 precedences_vars>>

\* AddPrecedenceWithOffsetIfNew(i1, i2, offset), called at level 0 only
\* (DCHECK_EQ(trail_->CurrentDecisionLevel(), 0)).
AddPrecedenceWithOffsetIfNew(in) ==
  /\ check_failed = ""
  /\ CurrentDecisionLevel = 0
  /\ num_arc_calls < MaxArcCalls
  /\ \E s \in {AddPrecedenceWithOffsetIfNewOn(Self, in.tail, in.head, in.offset)} :
     LET created == Len(s.arcs_) # Len(arcs_)
     IN /\ Becomes(s)
        /\ last_call' = Call("AddPrecedenceWithOffsetIfNew", [s EXCEPT !.input = in])
        /\ num_arc_calls' = IF created THEN num_arc_calls + 1 ELSE num_arc_calls
        /\ index_history' = IF created /\ s.failed_check = ""
                            THEN [i \in 0..NumBooleans |->
                                    IF i = propagation_trail_index_ THEN IndexSnapshot(s)
                                    ELSE NoSnapshot]
                            ELSE index_history
  /\ UNCHANGED <<search_vars, domains_, is_ignored_literals_, model, decision_starts, saved_bounds,
                 num_bound_changes, external_path, replay_memo, relations_vars,
                 precedences_vars>>

\* A literal assigned by the rest of the solver: a decision opens a level,
\* a propagated literal stays at the current one.
AssignLiteral(l, is_decision) ==
  /\ check_failed = ""
  /\ ~LiteralIsAssigned(Self, l)
  /\ trail' = Append(trail, l)
  /\ decision_starts' = IF is_decision THEN Append(decision_starts, Len(trail)) ELSE decision_starts
  /\ saved_bounds' = IF is_decision THEN Append(saved_bounds, current_bound) ELSE saved_bounds
  /\ external_path' = Append(external_path,
                        [kind |-> "literal", var |-> l, value |-> 0, decision |-> is_decision,
                         level |-> Len(decision_starts')])
  /\ last_call' = Call("AssignLiteral", Self)
  /\ UNCHANGED <<search_vars, current_bound, domains_, is_ignored_literals_, model, propagator_vars, check_failed,
                 num_arc_calls, num_bound_changes, index_history, replay_memo, relations_vars,
                 precedences_vars>>

\* A lower bound raised by the rest of the solver (a decision on the
\* variable, another propagator) through IntegerTrail::Enqueue.
ChangeLowerBound(v, bound) ==
  /\ check_failed = ""
  /\ num_bound_changes < MaxBoundChanges
  /\ bound \in domains_[v]
  /\ bound > current_bound[v]
  /\ bound <= UpperBound(Self, v)
  /\ ~IsCurrentlyIgnored(Self, v)
  /\ \E s \in {Enqueue(Self, v, bound, << >>, << >>)} :
        /\ Becomes(s)
        /\ last_call' = Call("ChangeLowerBound", s)
  /\ num_bound_changes' = num_bound_changes + 1
  /\ external_path' = Append(external_path,
                        [kind |-> "bound", var |-> v, value |-> bound, decision |-> FALSE,
                         level |-> CurrentDecisionLevel])
  /\ UNCHANGED <<search_vars, domains_, is_ignored_literals_, model, decision_starts, saved_bounds,
                 num_arc_calls, index_history, replay_memo, relations_vars,
                 precedences_vars>>

ReplayMatches(memo) ==
  memo.valid /\ memo.path = external_path /\ memo.narcs = Len(arcs_)

Propagate ==
  /\ check_failed = ""
  /\ \E s \in {PropagateOn(Self)} :
     LET finished == s.ret /\ s.propagation_trail_index_ = Len(s.trail)
     IN /\ Becomes(s)
        /\ last_call' = Call("Propagate", s)
        /\ index_history' = IF s.failed_check = "" THEN s.index_history ELSE index_history
        /\ replay_memo' =
             IF ~model.replay \/ ~finished \/ ReplayMatches(replay_memo) THEN replay_memo
             ELSE IF /\ replay_memo.valid
                     /\ replay_memo.narcs = Len(arcs_)
                     /\ IsPrefix(external_path, replay_memo.path)
             THEN replay_memo
             ELSE [valid |-> TRUE, replayed |-> FALSE, path |-> external_path,
                   narcs |-> Len(arcs_), bound |-> s.current_bound]
  /\ UNCHANGED <<search_vars, domains_, is_ignored_literals_, model, decision_starts, saved_bounds,
                 num_arc_calls, num_bound_changes, external_path, relations_vars,
                 precedences_vars>>

\* AddGreaterThanAtLeastOneOfConstraintsFromClause(clause, model): the
\* caller passes a clause of the solver or the pair of a literal and its
\* negation; the solver's propagation after a constraint fails at fails_at.
AddGreaterThanAtLeastOneOfConstraintsFromClause(clause, fails_at) ==
  /\ check_failed = ""
  /\ \E s \in {AddGreaterThanAtLeastOneOfConstraintsFromClauseOn(Self, clause, fails_at)} :
       /\ Becomes(s)
       /\ last_call' = Call("AddGreaterThanAtLeastOneOfConstraintsFromClause",
                            [s EXCEPT !.input = [NoInput EXCEPT !.clause = clause]])
       /\ index_history' = IF s.failed_check = "" THEN s.index_history ELSE index_history
  /\ UNCHANGED <<search_vars, domains_, is_ignored_literals_, model, decision_starts, saved_bounds,
                 num_arc_calls, num_bound_changes, external_path, relations_vars,
                 precedences_vars, replay_memo>>

\* SatSolver::Backtrack(level): every propagator is untrailed to the trail
\* size of the level, the integer trail restores the bounds, the trail is cut.
Backtrack(level) ==
  /\ check_failed = ""
  /\ level < CurrentDecisionLevel
  /\ \E s \in {UntrailOn(Self, decision_starts[level + 1])} :
     LET restored == [s EXCEPT !.trail = SubSeq(trail, 1, decision_starts[level + 1]),
                               !.current_bound = saved_bounds[level + 1]]
     IN /\ Becomes(restored)
        /\ last_call' = Call("Untrail", s)
        /\ index_history' = [i \in 0..NumBooleans |->
                               IF i <= s.propagation_trail_index_ THEN index_history[i]
                               ELSE NoSnapshot]
  /\ decision_starts' = SubSeq(decision_starts, 1, level)
  /\ saved_bounds' = SubSeq(saved_bounds, 1, level)
  /\ external_path' = SelectSeq(external_path, LAMBDA e : e.level <= level)
  /\ replay_memo' = IF replay_memo.valid /\ ~IsPrefix(replay_memo.path, external_path')
                    THEN [replay_memo EXCEPT !.replayed = TRUE] ELSE replay_memo
  /\ UNCHANGED <<search_vars, domains_, is_ignored_literals_, model, num_arc_calls, num_bound_changes,
                 relations_vars, precedences_vars>>

\* The store a call of the relation store leaves.
BecomesStore(r) ==
  /\ graph_' = r.graph_
  /\ arc_offset_' = r.arc_offset_
  /\ is_built_' = r.is_built_
  /\ is_dag_' = r.is_dag_
  /\ topological_order_' = r.topological_order_
  /\ all_relations_' = r.all_relations_

Add(in) ==
  /\ Len(graph_) < 2 * MaxAdds
  /\ BecomesStore(AddOn(Store, in.tail, in.head, in.offset))
  /\ last_call' = Call("Add", [Self EXCEPT !.input = in])
  /\ UNCHANGED <<search_vars, trail_vars, propagator_vars, precedences_vars, output, check_failed, num_arc_calls,
                 num_bound_changes, index_history, external_path, replay_memo>>

Build ==
  /\ BecomesStore(BuildOn(Store))
  /\ last_call' = Call("Build", Self)
  /\ UNCHANGED <<search_vars, trail_vars, propagator_vars, precedences_vars, output, check_failed, num_arc_calls,
                 num_bound_changes, index_history, external_path, replay_memo>>

\* ComputeFullPrecedences(vars_in, &passed): the caller passes the vector
\* of its last query or a vector of another use.
ComputeFullPrecedences(vars_in, passed) ==
  /\ \E done \in {ComputeFullPrecedencesOn(Store, vars_in, passed)} :
       /\ BecomesStore(done.store)
       /\ output' = done.output
  /\ last_call' = Call("ComputeFullPrecedences",
                       [Self EXCEPT !.input = [NoInput EXCEPT !.vars = vars_in, !.output = passed]])
  /\ UNCHANGED <<search_vars, trail_vars, propagator_vars, precedences_vars, check_failed, num_arc_calls,
                 num_bound_changes, index_history, external_path, replay_memo>>

\* ComputePrecedences(vars_in, &output_precedences): the caller passes the
\* vector of its last query.
ComputePrecedences(vars_in) ==
  /\ check_failed = ""
  /\ \E m \in ComputePrecedencesOn(Self, var_to_degree_, var_to_last_index_, vars_in,
                                   output_precedences) :
       /\ var_to_degree_' = m.var_to_degree_
       /\ var_to_last_index_' = m.var_to_last_index_
       /\ output_precedences' = m.output
  /\ last_call' = Call("ComputePrecedences", [Self EXCEPT !.input = [NoInput EXCEPT !.vars = vars_in]])
  /\ UNCHANGED <<search_vars, trail_vars, propagator_vars, relations_vars, check_failed, num_arc_calls,
                 num_bound_changes, index_history, external_path, replay_memo>>

\* A call of the closure of ConstructUserSearchStrategy.
Branch ==
  /\ decision' \in UserSearchStrategy(cp_model_proto, parameters, view)
  /\ UNCHANGED <<trail_vars, propagator_vars, relations_vars, precedences_vars, observer_vars,
                 cp_model_proto, parameters, view, heuristics, result>>

\* The solver takes the decision, or its negation after a conflict.
TakeDecision(truth) ==
  /\ decision.called
  /\ decision.literal # NullLiteral
  /\ \A var \in ProtoVariables : Values(Assigned(view, decision.literal, truth), var) # {}
  /\ view' = Assigned(view, decision.literal, truth)
  /\ decision' = NoDecision
  /\ UNCHANGED <<trail_vars, propagator_vars, relations_vars, precedences_vars, observer_vars,
                 cp_model_proto, parameters, heuristics, result>>

ConstructFixedSearchStrategy(variable_mapping, objective_var) ==
  /\ heuristics' = [called |-> TRUE,
                    chain |-> FixedSearchStrategy(cp_model_proto, variable_mapping,
                                                  objective_var, parameters),
                    variable_mapping |-> variable_mapping, objective_var |-> objective_var]
  /\ UNCHANGED <<trail_vars, propagator_vars, relations_vars, precedences_vars, observer_vars,
                 cp_model_proto, parameters, view, decision, result>>

GetDiverseSetOfParameters ==
  /\ result' = [called |-> TRUE, variants |-> DiverseSetOfParameters(parameters, cp_model_proto)]
  /\ UNCHANGED <<trail_vars, propagator_vars, relations_vars, precedences_vars, observer_vars,
                 cp_model_proto, parameters, view, decision, heuristics>>

Next ==
  \/ \E in \in model.inputs : AddArc(in)
  \/ \E in \in model.precedences : AddPrecedenceWithOffsetIfNew(in)
  \/ \E l \in model.literals, is_decision \in BOOLEAN : AssignLiteral(l, is_decision)
  \/ \E b \in model.bounds : ChangeLowerBound(b.var, b.bound)
  \/ Propagate
  \/ \E level \in 0..NumBooleans : Backtrack(level)

Spec == Init /\ [][Next]_vars

\* Propagate() one turn of the Bellman-Ford queue at a time: the call that is
\* running resumes with what it has recorded so far, and nothing else runs
\* before it returns.
ObserverFields ==
  {"enq_lits", "enq_bounds", "cycles", "deactivated", "overflows", "presence_enqueues",
   "consuming", "bf_steps", "input"}
Resumed == [f \in DOMAIN Self |-> IF f \in ObserverFields THEN last_call[f] ELSE Self[f]]
Running == last_call.op = "Running"

\* The trail loop and InitializeBFQueueWithModifiedNodes.
StartPropagate ==
  /\ check_failed = ""
  /\ ~Running
  /\ \E consumed \in {ConsumeTrail(Self)} :
       \E s \in {IF consumed.ret
                 THEN InitializeBFQueueWithModifiedNodes([consumed EXCEPT !.consuming = 0])
                 ELSE consumed} :
         /\ Becomes(s)
         /\ last_call' = Call(IF s.ret THEN "Running" ELSE "Propagate", s)
         /\ index_history' = IF s.failed_check = "" THEN s.index_history ELSE index_history
  /\ UNCHANGED <<search_vars, domains_, is_ignored_literals_, model, decision_starts, saved_bounds,
                 num_arc_calls, num_bound_changes, external_path, relations_vars,
                 precedences_vars, replay_memo>>

\* One turn of the queue; the cleanup runs when the turn returns false.
TakeQueueTurn ==
  /\ check_failed = ""
  /\ Running
  /\ bf_queue_ # << >>
  /\ \E turned \in {QueueTurn(Resumed)} :
       \E s \in {IF turned.ret THEN turned ELSE CleanUpMarkedArcsAndParents(turned)} :
         /\ Becomes(s)
         /\ last_call' = Call(IF s.ret THEN "Running" ELSE "Propagate", s)
  /\ UNCHANGED <<search_vars, domains_, is_ignored_literals_, model, decision_starts, saved_bounds,
                 num_arc_calls, num_bound_changes, external_path, relations_vars,
                 precedences_vars, replay_memo, index_history>>

\* The queue is empty: the cleanup, the optional arcs, and the return.
FinishPropagate ==
  /\ check_failed = ""
  /\ Running
  /\ bf_queue_ = << >>
  /\ \E s \in {AfterBellmanFordTarjan(CleanUpMarkedArcsAndParents(Resumed))} :
       /\ Becomes(s)
       /\ last_call' = Call("Propagate", s)
  /\ UNCHANGED <<search_vars, domains_, is_ignored_literals_, model, decision_starts, saved_bounds,
                 num_arc_calls, num_bound_changes, external_path, relations_vars,
                 precedences_vars, replay_memo, index_history>>

\* The models of the positive cycle, of the optional variables on a cycle and
\* of the domains with holes.
InitTurns ==
  (\E c \in {CycleModel, OptionalModel, OffsetModel} : Loaded(c, FALSE)) /\ NoSearch

NextTurns ==
  \/ ~Running /\ \E in \in model.inputs : AddArc(in)
  \/ ~Running /\ \E l \in model.literals : AssignLiteral(l, TRUE)
  \/ ~Running /\ \E b \in model.bounds : ChangeLowerBound(b.var, b.bound)
  \/ StartPropagate
  \/ TakeQueueTurn
  \/ FinishPropagate
  \/ ~Running /\ \E level \in 0..NumBooleans : Backtrack(level)

\* A call that has started goes on, the loop being sequential code: weak
\* fairness of TakeQueueTurn and of FinishPropagate, WF_vars(A) written as
\* []<>(~ENABLED <<A>>_vars) \/ []<><<A>>_vars with the guard of the action for
\* ENABLED <<A>>_vars (a turn always takes the front of the queue, and the
\* return always changes last_call).
CanTakeQueueTurn == check_failed = "" /\ Running /\ bf_queue_ # << >>
CanFinishPropagate == check_failed = "" /\ Running /\ bf_queue_ = << >>
SpecTurns ==
  /\ InitTurns
  /\ [][NextTurns]_vars
  /\ ([]<>(~CanTakeQueueTurn) \/ []<><<TakeQueueTurn>>_vars)
  /\ ([]<>(~CanFinishPropagate) \/ []<><<FinishPropagate>>_vars)

SpecReplay == InitReplay /\ [][Next]_vars

NextQueries ==
  \/ \E in \in model.inputs : AddArc(in)
  \/ \E l \in model.literals, is_decision \in BOOLEAN : AssignLiteral(l, is_decision)
  \/ Propagate
  \/ \E level \in 0..NumBooleans : Backtrack(level)
  \/ \E vars_in \in model.queries : ComputePrecedences(vars_in)

SpecQueries == InitQueries /\ [][NextQueries]_vars

NextRelations ==
  \/ \E in \in model.relations : Add(in)
  \/ Build
  \/ \E vars_in \in model.queries, passed \in {output, StaleOutput} :
       ComputeFullPrecedences(vars_in, passed)

SpecRelations == InitRelations /\ [][NextRelations]_vars

NextPresence ==
  \/ \E in \in model.inputs : AddArc(in)
  \/ \E l \in model.literals : AssignLiteral(l, TRUE)
  \/ \E b \in model.bounds : ChangeLowerBound(b.var, b.bound)
  \/ Propagate
  \/ \E level \in 0..NumBooleans : Backtrack(level)

SpecPresence == InitPresence /\ [][NextPresence]_vars

SpecConditional == InitConditional /\ [][NextPresence]_vars

\* Clauses over the literals a, b and their negations, the pair of a and its
\* negation among them.
Clauses ==
  {<<0>>, <<0, 2>>, <<2, 0>>, <<0, 1>>, <<0, 2, 1>>, <<0, 2, 1, 3>>, <<3, 0, 2, 1>>}

InitClauses == Loaded(ClauseModel, FALSE) /\ NoSearch

NextClauses ==
  \/ \E in \in model.inputs : AddArc(in)
  \/ \E l \in model.literals, is_decision \in BOOLEAN : AssignLiteral(l, is_decision)
  \/ Propagate
  \/ \E clause \in Clauses, fails_at \in 0..1 :
       AddGreaterThanAtLeastOneOfConstraintsFromClause(clause, fails_at)
  \/ \E level \in 0..NumBooleans : Backtrack(level)

SpecClauses == InitClauses /\ [][NextClauses]_vars

NextSearch ==
  \/ Branch
  \/ \E truth \in BOOLEAN : TakeDecision(truth)

SpecSearch == InitSearch /\ [][NextSearch]_vars

NextComposer ==
  \/ \E m \in Mappings : ConstructFixedSearchStrategy(m.variable_mapping, m.objective_var)
  \/ GetDiverseSetOfParameters

SpecComposer == InitComposer /\ [][NextComposer]_vars

\* ---------------------------------------------------------------- claims
\* The active arcs: count 0 and installed in impacted_arcs_ of their tail.
ActiveArcs ==
  {a \in 1..Len(arcs_) : arc_counts_[a] = 0 /\ a \in Range(impacted_arcs_[arcs_[a].tail_var])}

\* lower(head) >= lower(tail) + offset + lower(offset_var).
ArcIsSatisfied(a) ==
  LowerBound(Self, arcs_[a].head_var) >= LowerBound(Self, arcs_[a].tail_var) + ArcOffset(Self, arcs_[a])

ReturnedTrue == last_call.op = "Propagate" /\ last_call.ret
ReturnedFalse == last_call.op = "Propagate" /\ ~last_call.ret /\ check_failed = ""

\* C1: whenever Propagate() has returned true, every active arc (count 0,
\* installed in impacted_arcs_) has lower(head) >= lower(tail) + offset +
\* lower(offset_var), after any interleaving of AddArc, literal assignments,
\* bound changes, Propagate and Untrail.  An arc whose head is currently
\* ignored is left out: the propagator never pushes those.
C1_ActiveArcsSatisfied ==
  ReturnedTrue =>
    \A a \in ActiveArcs : IsCurrentlyIgnored(Self, arcs_[a].head_var) \/ ArcIsSatisfied(a)

\* C2: an internal arc is in impacted_arcs_ of its tail if and only if its
\* count is 0, after any interleaving of AddArc (at any level), literal
\* assignments, Propagate and Untrail.
C2_InstalledIffCountZero ==
  \A a \in 1..Len(arcs_) :
    (a \in Range(impacted_arcs_[arcs_[a].tail_var])) <=> (arc_counts_[a] = 0)

\* C3: Untrail undoes the activations exactly: when the trail was consumed
\* up to position i, then further, and Untrail brings
\* propagation_trail_index_ back to i, arc_counts_ and every impacted_arcs_
\* list (same elements, same order) are what they were when
\* propagation_trail_index_ was i.
C3_UntrailRestoresActivation ==
  [][(/\ last_call'.op = "Untrail"
      /\ propagation_trail_index_' < propagation_trail_index_
      /\ index_history[propagation_trail_index_'].valid)
     => /\ arc_counts_' = index_history[propagation_trail_index_'].arc_counts_
        /\ impacted_arcs_' = index_history[propagation_trail_index_'].impacted_arcs_]_vars

\* C3's case: an Untrail that deactivated arcs and brought the index back to
\* a position whose lists and counts are on record.
C3_Witness ==
  /\ last_call.op = "Untrail"
  /\ last_call.deactivated # << >>
  /\ index_history[propagation_trail_index_].valid
  /\ arc_counts_ = index_history[propagation_trail_index_].arc_counts_
  /\ impacted_arcs_ = index_history[propagation_trail_index_].impacted_arcs_

\* The walks of at most k arcs of A, as <<first tail, last head, summed offset>>.
RECURSIVE WalksUpTo(_, _)
WalksUpTo(A, k) ==
  IF k <= 1 THEN {<<arcs_[a].tail_var, arcs_[a].head_var, arcs_[a].offset>> : a \in A}
  ELSE LET shorter == WalksUpTo(A, k - 1)
       IN shorter \cup
          UNION {{<<w[1], arcs_[a].head_var, w[3] + arcs_[a].offset>> :
                    a \in {b \in A : arcs_[b].tail_var = w[2]}} : w \in shorter}

HasPositiveCycle(A) ==
  \E w \in WalksUpTo(A, Cardinality(A)) : w[1] = w[2] /\ w[3] > 0

\* The active unconditional fixed-offset arcs between non-optional variables.
PlainActiveArcs ==
  {a \in ActiveArcs : /\ arcs_[a].presence_literals = << >>
                      /\ arcs_[a].offset_var = kNoIntegerVariable
                      /\ ~IsOptional(arcs_[a].tail_var)
                      /\ ~IsOptional(arcs_[a].head_var)}

\* C4: when the active unconditional fixed-offset arcs over non-optional
\* variables contain a cycle of positive summed offset, Propagate() never
\* returns true.
C4_PositiveCycleIsConflict ==
  (last_call.op = "Propagate" /\ check_failed = "" /\ HasPositiveCycle(PlainActiveArcs))
    => ~last_call.ret

\* The arcs of the cycle model that AddArc has created: tail + offset <= head
\* under the presence literals given.
HasArc(tail, head, offset, presence_literals) ==
  \E a \in 1..Len(arcs_) :
    /\ arcs_[a].tail_var = tail /\ arcs_[a].head_var = head
    /\ arcs_[a].offset = offset /\ arcs_[a].offset_var = kNoIntegerVariable
    /\ arcs_[a].presence_literals = presence_literals

\* x+1<=y and y+1<=z unconditional, z+1<=x only under the literal 0.
GuardedCycleLoaded ==
  /\ model.name = "cycle"
  /\ HasArc(0, 2, 1, << >>) /\ HasArc(2, 4, 1, << >>) /\ HasArc(4, 0, 1, <<0>>)
  /\ ~HasArc(4, 0, 1, << >>)

NegationEnqueued(call) == \E i \in 1..Len(call.enq_lits) : call.enq_lits[i].literal = 1
Pushed(call, v) == \E i \in 1..Len(call.enq_bounds) : call.enq_bounds[i].var = v

\* C5 as stated: on the cycle x+1<=y, y+1<=z, z+1<=x whose last arc is
\* guarded by a literal l unassigned when the bounds are pushed, Propagate()
\* reports no conflict and enqueues the negation of l.
C5_NegationAlwaysEnqueued ==
  [][(/\ GuardedCycleLoaded
      /\ ~LiteralIsAssigned(Self, 0)
      /\ last_call'.op = "Propagate"
      /\ last_call'.enq_bounds # << >>)
     => (last_call'.ret /\ NegationEnqueued(last_call'))]_vars

\* C5 amended: on that cycle, with l unassigned at the call, Propagate()
\* reports no positive-cycle conflict; it enqueues the negation of l only
\* when it returns true with lower(z) + 1 > upper(x), and it does so whenever
\* moreover the call pushed the lower bound of z or the upper bound of x.
C5_NegationEnqueuedWhenArcCannotHold ==
  [][(/\ GuardedCycleLoaded
      /\ ~LiteralIsAssigned(Self, 0)
      /\ last_call'.op = "Propagate")
     => /\ last_call'.conflict.kind # "cycle"
        /\ NegationEnqueued(last_call')
             => (last_call'.ret /\ current_bound'[4] + 1 > -current_bound'[1])
        /\ (/\ last_call'.ret
            /\ current_bound'[4] + 1 > -current_bound'[1]
            /\ (Pushed(last_call', 4) \/ Pushed(last_call', 1)))
             => NegationEnqueued(last_call')]_vars

\* C5's case: Propagate() has pushed bounds on the guarded cycle and
\* enqueued the negation of the guard.
C5_Witness ==
  /\ GuardedCycleLoaded
  /\ ReturnedTrue
  /\ last_call.enq_bounds # << >>
  /\ NegationEnqueued(last_call)
  /\ LowerBound(Self, 4) + 1 > UpperBound(Self, 0)

\* One round of relaxation of the bounds b along the arcs of A.
Relaxed(b, A) ==
  [v \in IntegerVariables |->
     SetMax({b[v]} \cup {b[arcs_[a].tail_var] + arcs_[a].offset :
                           a \in {c \in A : arcs_[c].head_var = v}})]

\* The least bounds above b that satisfy every arc of A, when A has no
\* positive cycle: reached in at most one round per variable.
RECURSIVE LeastFixedPoint(_, _, _)
LeastFixedPoint(b, A, rounds) ==
  IF rounds = 0 \/ Relaxed(b, A) = b THEN b
  ELSE LeastFixedPoint(Relaxed(b, A), A, rounds - 1)

LeastBounds == LeastFixedPoint(current_bound, PlainActiveArcs, Cardinality(IntegerVariables))

\* Every arc is unconditional, with a fixed offset, between non-optional
\* variables whose domains are intervals.
OnlyPlainArcs ==
  /\ arcs_ # << >>
  /\ PlainActiveArcs = 1..Len(arcs_)
  /\ domains_ = Interval

\* C6: with active unconditional fixed-offset arcs, no positive cycle and no
\* upper bound violated, a Propagate() that returns true leaves every lower
\* bound at the least fixed point of the arcs above the bounds it started
\* from, neither lower nor higher.
C6_LeastFixedPoint ==
  [][(/\ OnlyPlainArcs
      /\ ~HasPositiveCycle(PlainActiveArcs)
      /\ \A v \in IntegerVariables : LeastBounds[v] <= -LeastBounds[NegationOf(v)]
      /\ last_call'.op = "Propagate"
      /\ last_call'.ret)
     => current_bound' = LeastBounds]_vars

NothingEnqueued(call) == call.enq_lits = << >> /\ call.enq_bounds = << >>

\* C7 as stated: a Propagate() called right after a Propagate() that
\* returned true, with nothing done in between, enqueues no integer bound
\* and no literal.
C7_SecondCallEnqueuesNothing ==
  (last_call.op = "Propagate" /\ last_call.repeat) => NothingEnqueued(last_call)

\* C7 amended: a Propagate() called right after a Propagate() that returned
\* true and left no literal of the trail unconsumed returns true and enqueues
\* no integer bound and no literal.
C7_SecondCallAfterConsumedTrail ==
  [][(/\ ReturnedTrue
      /\ propagation_trail_index_ = Len(trail)
      /\ last_call'.op = "Propagate")
     => (last_call'.ret /\ NothingEnqueued(last_call'))]_vars

\* C7's case: a second Propagate() in a row, on a propagator with arcs and a
\* consumed trail, that enqueued nothing.
C7_Witness ==
  /\ last_call.op = "Propagate"
  /\ last_call.repeat
  /\ last_call.ret
  /\ NothingEnqueued(last_call)
  /\ ActiveArcs # {}
  /\ trail # << >>
  /\ propagation_trail_index_ = Len(trail)

\* C8: once Propagate() has succeeded at a trail position, Untrail to an
\* earlier position, the same assignments made again in the same order and
\* Propagate() give every integer variable the lower bound it had on the
\* first path.
C8_ReplayReachesSameBounds ==
  (/\ ReturnedTrue
   /\ propagation_trail_index_ = Len(trail)
   /\ replay_memo.replayed
   /\ ReplayMatches(replay_memo))
  => current_bound = replay_memo.bound

\* a+1<=b, b+1<=c, c+1<=a and nothing but unconditional arcs.
PlainCycleLoaded ==
  /\ model.name = "cycle"
  /\ HasArc(0, 2, 1, << >>) /\ HasArc(2, 4, 1, << >>) /\ HasArc(4, 0, 1, << >>)
  /\ \A a \in 1..Len(arcs_) : arcs_[a].presence_literals = << >>

\* C9 as stated: on a+1<=b, b+1<=c, c+1<=a the conflict Propagate() reports
\* has an empty literal reason and is the positive-cycle conflict, with
\* summed offsets exactly 3.
C9_ConflictIsTheCycle ==
  (ReturnedFalse /\ PlainCycleLoaded)
    => /\ last_call.conflict.literal_reason = << >>
       /\ last_call.conflict.kind = "cycle"
       /\ last_call.conflict.sum = 3

\* C9 amended: on a+1<=b, b+1<=c, c+1<=a the conflict Propagate() reports
\* has an empty literal reason; it is the positive-cycle conflict, with
\* summed offsets exactly 3, or, when that comes first, the conflict of a
\* push that cannot stay within the upper bound of its head.
C9_ConflictIsCycleOrUpperBound ==
  (ReturnedFalse /\ PlainCycleLoaded)
    => /\ last_call.conflict.literal_reason = << >>
       /\ \/ last_call.conflict.kind = "cycle" /\ last_call.conflict.sum = 3
          \/ last_call.conflict.kind \in {"upper_bound", "enqueue"}

\* C9's case: the positive-cycle conflict on the three unconditional arcs.
C9_Witness ==
  /\ ReturnedFalse
  /\ PlainCycleLoaded
  /\ last_call.conflict.kind = "cycle"
  /\ last_call.conflict.sum = 3
  /\ last_call.conflict.literal_reason = << >>

EnqueuedLiterals(call) == {call.enq_lits[i].literal : i \in 1..Len(call.enq_lits)}

\* C10 as stated: for every positive cycle Propagate() detects with an
\* optional head: when an is-ignored literal of the cycle is false,
\* Propagate() reports a conflict whose literal reason contains such a
\* literal; otherwise Propagate() reports no conflict and every is-ignored
\* literal of the cycle that is not already true is enqueued as true.
C10_NoConflictAfterForcedIgnore ==
  last_call.op = "Propagate" =>
    \A i \in 1..Len(last_call.cycles) :
      LET cycle == last_call.cycles[i]
      IN cycle.must_be_all_true # << >> =>
           IF cycle.false_before # {}
           THEN /\ ~last_call.ret
                /\ cycle.false_before \cap Range(last_call.conflict.literal_reason) # {}
           ELSE /\ last_call.ret
                /\ (Range(cycle.must_be_all_true) \ cycle.true_before)
                     \subseteq EnqueuedLiterals(last_call)

\* C10 amended: for every positive cycle Propagate() detects with an
\* optional head: when an is-ignored literal of the cycle is false,
\* Propagate() reports the cycle as a conflict whose literal reason contains
\* such a literal; otherwise the cycle is not reported as a conflict (the
\* propagation goes on, and a later push of the same call may still report
\* one) and every is-ignored literal of the cycle that is not already true
\* is enqueued as true.
C10_OptionalCycle ==
  last_call.op = "Propagate" =>
    \A i \in 1..Len(last_call.cycles) :
      LET cycle == last_call.cycles[i]
      IN cycle.must_be_all_true # << >> =>
           IF cycle.false_before # {}
           THEN /\ ~last_call.ret
                /\ last_call.conflict.kind = "cycle"
                /\ i = Len(last_call.cycles)
                /\ cycle.false_before \cap Range(last_call.conflict.literal_reason) # {}
           ELSE /\ last_call.ret \/ last_call.conflict.kind # "cycle" \/ i < Len(last_call.cycles)
                /\ (Range(cycle.must_be_all_true) \ cycle.true_before)
                     \subseteq EnqueuedLiterals(last_call)

\* C10's case: a positive cycle through optional heads whose is-ignored
\* literal was not false: the literal has been enqueued.
C10_Witness ==
  /\ ReturnedTrue
  /\ \E i \in 1..Len(last_call.cycles) :
       /\ last_call.cycles[i].must_be_all_true # << >>
       /\ last_call.cycles[i].false_before = {}
       /\ Range(last_call.cycles[i].must_be_all_true) \subseteq EnqueuedLiterals(last_call)
       /\ \A l \in Range(last_call.cycles[i].must_be_all_true) : LiteralIsTrue(Self, l)

\* C11: a push of an active arc above the upper bound of its head is a
\* conflict of Propagate() when the head is not optional; when the head is
\* optional and not ignored, its is-ignored literal is enqueued and the push
\* is no conflict (the propagation continues), unless that literal is false:
\* then Propagate() reports a conflict whose literal reason includes it.  No
\* lower bound is ever above the upper bound of its variable.
C11_PushAboveUpperBound ==
  /\ \A v \in IntegerVariables : LowerBound(Self, v) <= UpperBound(Self, v)
  /\ last_call.op = "Propagate" =>
       \A i \in 1..Len(last_call.overflows) :
         LET push == last_call.overflows[i]
             is_last == i = Len(last_call.overflows)
         IN IF ~push.optional \/ push.literal_false
            THEN /\ ~last_call.ret
                 /\ is_last
                 /\ last_call.conflict.kind = "upper_bound"
                 /\ push.literal_false =>
                      push.literal \in Range(last_call.conflict.literal_reason)
            ELSE /\ push.literal \in EnqueuedLiterals(last_call)
                 /\ last_call.ret \/ ~is_last \/ last_call.conflict.kind # "upper_bound"

\* C11's case: Propagate() met a push above the upper bound of an optional
\* head, enqueued the is-ignored literal of the head and returned true.
C11_Witness ==
  /\ ReturnedTrue
  /\ \E i \in 1..Len(last_call.overflows) :
       /\ last_call.overflows[i].optional
       /\ ~last_call.overflows[i].literal_false
       /\ last_call.overflows[i].bound > last_call.overflows[i].upper
       /\ LiteralIsTrue(Self, last_call.overflows[i].literal)

\* The stored presence literals of an arc created at level 0 from the
\* enforcement literals given: the ones that are not true, without the
\* not-ignored literal of an optional head.
StoredAtLevelZero(enforcement, head) ==
  {l \in Range(enforcement) : /\ ~LiteralIsTrue(Self, l)
                              /\ ~(IsOptional(head) /\ l = Negated(IsIgnoredLiteral(head)))}

Dropped(in) ==
  /\ CurrentDecisionLevel = 0
  /\ \E l \in Range(EnforcementLiterals(in.tail, in.head, in.offset_var, in.presence_literals)) :
       LiteralIsFalse(Self, l)

\* The internal arcs a call has appended, as <<tail, head, offset_var, offset>>.
Appended(before, after) ==
  [i \in 1..(Len(after) - Len(before)) |->
     <<after[Len(before) + i].tail_var, after[Len(before) + i].head_var,
       after[Len(before) + i].offset_var, after[Len(before) + i].offset>>]

\* a + k <= b and its mirror.
TwoArcs(a, b, k) ==
  << <<a, b, kNoIntegerVariable, k>>, <<NegationOf(b), NegationOf(a), kNoIntegerVariable, k>> >>

\* The three rotations of a + c + k <= b, each with either of its two
\* variables as the tail.
SixArcs(a, b, c, k) ==
  { <<a, b, c, k>>, <<c, b, a, k>>,
    <<a, NegationOf(c), NegationOf(b), k>>, <<NegationOf(b), NegationOf(c), a, k>>,
    <<c, NegationOf(a), NegationOf(b), k>>, <<NegationOf(b), NegationOf(a), c, k>> }

IsFixedAtLevelZero(v) == LevelZeroLowerBound(v) = LevelZeroUpperBound(v)

\* C13 as stated: an AddArc call that is not dropped appends exactly the 2
\* arcs a->b and -b->-a, with the offset given, when it has no offset
\* variable, and exactly the 6 arcs of the three rotations of a + c + offset
\* <= b whenever it has an offset variable c.
C13_TwoOrSixArcs ==
  [][(last_call'.op = "AddArc" /\ check_failed' = "" /\ ~Dropped(last_call'.input))
     => LET in == last_call'.input
            new == Appended(arcs_, arcs_')
        IN IF in.offset_var = kNoIntegerVariable
           THEN new = TwoArcs(in.tail, in.head, in.offset)
           ELSE Len(new) = 6 /\ Range(new) = SixArcs(in.tail, in.head, in.offset_var, in.offset)]_vars

\* C13 amended: an AddArc call that is not dropped appends exactly the 2
\* arcs a->b and -b->-a, with one offset, when it has no offset variable or
\* an offset variable that is fixed at level 0 (its value is then added to
\* the offset), and exactly the 6 arcs of the three rotations of a + c +
\* offset <= b when it has an offset variable c that is not fixed at level 0.
C13_TwoOrSixArcsUnlessFixed ==
  [][(last_call'.op = "AddArc" /\ check_failed' = "" /\ ~Dropped(last_call'.input))
     => LET in == last_call'.input
            new == Appended(arcs_, arcs_')
        IN IF in.offset_var = kNoIntegerVariable
           THEN new = TwoArcs(in.tail, in.head, in.offset)
           ELSE IF IsFixedAtLevelZero(in.offset_var)
           THEN new = TwoArcs(in.tail, in.head, in.offset + LevelZeroLowerBound(in.offset_var))
           ELSE Len(new) = 6 /\ Range(new) = SixArcs(in.tail, in.head, in.offset_var, in.offset)]_vars

\* C13's case: an AddArc with an offset variable has appended six arcs.
C13_Witness ==
  /\ last_call.op = "AddArc"
  /\ last_call.input.offset_var # kNoIntegerVariable
  /\ Len(arcs_) >= 6
  /\ Range(Appended(SubSeq(arcs_, 1, Len(arcs_) - 6), arcs_))
       = SixArcs(last_call.input.tail, last_call.input.head, last_call.input.offset_var,
                 last_call.input.offset)

\* The active arcs i1->i2 whose effective offset is at least the offset.
DominatingArcs(i1, i2, offset) ==
  {i \in Range(impacted_arcs_[i1]) :
     arcs_[i].head_var = i2 /\ ArcOffset(Self, arcs_[i]) >= offset}

\* C14: at level 0, AddPrecedenceWithOffsetIfNew(a, b, k) adds no arc and
\* returns false whenever some active arc a->b has an effective offset >= k,
\* wherever that arc stands among the arcs leaving a; otherwise it appends
\* a + k <= b (the arc and its mirror) and returns true.
C14_AddedOnlyIfNew ==
  [][(last_call'.op = "AddPrecedenceWithOffsetIfNew" /\ check_failed' = "")
     => LET in == last_call'.input
        IN IF DominatingArcs(in.tail, in.head, in.offset) # {}
           THEN ~last_call'.ret /\ arcs_' = arcs_
           ELSE last_call'.ret
                /\ Appended(arcs_, arcs_') = TwoArcs(in.tail, in.head, in.offset)]_vars

\* ------------------------------------------- claims on the relation store
store_vars == <<graph_, arc_offset_, is_built_, is_dag_, topological_order_, all_relations_>>

\* Add(tail, head, offset) is to be recorded: the relation is not implied by
\* the bounds, joins two variables and has a non-negative offset.
ToRecord(in) ==
  /\ -current_bound[NegationOf(in.tail)] + in.offset > current_bound[in.head]
  /\ in.tail \div 2 # in.head \div 2
  /\ in.offset >= 0

\* C15: an Add before Build records the relation, as the two arcs
\* tail->head and neg(head)->neg(tail) with the offset given, if and only if
\* upper(tail) + offset > lower(head), tail and head are two variables and
\* offset >= 0; in every other case it changes nothing of the store.
C15_AddRecordsIff ==
  [][(last_call'.op = "Add" /\ ~is_built_)
     => LET in == last_call'.input
        IN IF ToRecord(in)
           THEN /\ graph_' = graph_ \o <<GraphArc(in.tail, in.head),
                                         GraphArc(NegationOf(in.head), NegationOf(in.tail))>>
                /\ arc_offset_' = arc_offset_ \o <<in.offset, in.offset>>
                /\ UNCHANGED <<is_built_, is_dag_, topological_order_, all_relations_>>
           ELSE UNCHANGED store_vars]_vars

\* C15's case: an Add has recorded its two arcs.
C15_Witness ==
  /\ last_call.op = "Add"
  /\ ~is_built_
  /\ Len(graph_) >= 4
  /\ graph_[Len(graph_) - 1] = GraphArc(last_call.input.tail, last_call.input.head)
  /\ graph_[Len(graph_)] = GraphArc(NegationOf(last_call.input.head), NegationOf(last_call.input.tail))
  /\ arc_offset_[Len(graph_)] = last_call.input.offset

\* C16: once the store is built, no step changes the graph, the offsets,
\* topological_order_, is_dag_ or all_relations_, and it stays built.
C16_BuiltIsImmutable ==
  [][is_built_ => UNCHANGED store_vars]_vars

\* C16's case: an Add of a relation to record came after Build and the built
\* store holds relations.
C16_Witness ==
  /\ is_built_
  /\ last_call.op = "Add"
  /\ ToRecord(last_call.input)
  /\ all_relations_ # EmptyMap

\* The nodes that a directed path of at least one arc joins to the nodes of S.
RECURSIVE ReachedFrom(_, _)
ReachedFrom(S, rounds) ==
  IF rounds = 0 THEN S
  ELSE ReachedFrom(S \cup {graph_[i].head : i \in {j \in 1..Len(graph_) : graph_[j].tail \in S}},
                   rounds - 1)
After(a) ==
  ReachedFrom({graph_[i].head : i \in {j \in 1..Len(graph_) : graph_[j].tail = a}}, Len(graph_))
Nodes == 0..(num_nodes(graph_) - 1)
HasCycle == \E a \in Nodes : a \in After(a)

\* C17: when the recorded arcs have a directed cycle, the built store has
\* is_dag_ false and no relation, and a ComputeFullPrecedences leaves the
\* vector empty, whatever it held.
C17_CycleGivesNothing ==
  (is_built_ /\ HasCycle)
    => /\ ~is_dag_
       /\ all_relations_ = EmptyMap
       /\ last_call.op = "ComputeFullPrecedences" => output = << >>

\* C17's case: a query on a store with a cycle was given a vector that held
\* an entry.
C17_Witness ==
  /\ is_built_
  /\ HasCycle
  /\ last_call.op = "ComputeFullPrecedences"
  /\ last_call.input.output # << >>
  /\ output = << >>

\* The total offsets of the directed paths from a to b (of an acyclic graph).
RECURSIVE PathSums(_, _)
PathSums(a, b) ==
  UNION { (IF graph_[i].head = b THEN {arc_offset_[i]} ELSE {})
            \cup {arc_offset_[i] + s : s \in PathSums(graph_[i].head, b)}
          : i \in {j \in 1..Len(graph_) : graph_[j].tail = a} }

\* C18: after Build on an acyclic set of arcs, every entry (a, b) -> k of
\* all_relations_ has k >= 0 and some directed path from a to b has the
\* total offset k.
C18_RelationsArePaths ==
  (is_built_ /\ ~HasCycle)
    => \A p \in DOMAIN all_relations_ :
         all_relations_[p] >= 0 /\ all_relations_[p] \in PathSums(p[1], p[2])

\* C18's case: a built acyclic store holds a relation that no single arc gives.
C18_Witness ==
  /\ is_built_
  /\ ~HasCycle
  /\ \E p \in DOMAIN all_relations_ :
       \A i \in 1..Len(graph_) : GraphArc(p[1], p[2]) # graph_[i]

\* C19: after Build on an acyclic set of arcs, all_relations_ has an entry
\* for every pair (a, b) that a directed path joins, and its value is the
\* largest total offset of the directed paths from a to b.
C19_RelationsAreLongestPaths ==
  (is_built_ /\ ~HasCycle)
    => \A a \in Nodes, b \in Nodes :
         PathSums(a, b) # {}
           => <<a, b>> \in DOMAIN all_relations_ /\ all_relations_[<<a, b>>] = SetMax(PathSums(a, b))

\* C19's case: two paths of different total offsets join a pair of a built
\* acyclic store.
C19_Witness ==
  /\ is_built_
  /\ ~HasCycle
  /\ \E a \in Nodes, b \in Nodes :
       /\ Cardinality(PathSums(a, b)) >= 2
       /\ <<a, b>> \in DOMAIN all_relations_
       /\ all_relations_[<<a, b>>] = SetMax(PathSums(a, b))

\* The vars of the last query that an entry of the output lists.
Listed(entry) == {last_call.input.vars[i + 1] : i \in Range(entry.indices)}

\* C20: ComputeFullPrecedences emits an entry for h only if, for every
\* recorded arc t->h, the vars it lists before h hold one that is neither t
\* nor before t.
C20_EmittedOnlyIfMoreThanEveryTail ==
  last_call.op = "ComputeFullPrecedences"
    => \A e \in 1..Len(output) :
         \A i \in 1..Len(graph_) :
           graph_[i].head = output[e].var
             => \E v \in Listed(output[e]) :
                  v # graph_[i].tail /\ graph_[i].tail \notin After(v)

\* ------------------------------------------------ claims on the queries
\* C21: in the output of ComputePrecedences the entries of one head are
\* contiguous, every head that appears has at least two entries, and no two
\* entries of one head have the same index.
C21_GroupedByHead ==
  last_call.op = "ComputePrecedences"
    => LET out == output_precedences
       IN /\ \A i \in 1..Len(out), j \in 1..Len(out) :
               (i < j /\ out[i].var = out[j].var)
                 => /\ \A k \in i..j : out[k].var = out[i].var
                    /\ out[i].index # out[j].index
          /\ \A i \in 1..Len(out) : \E j \in 1..Len(out) : j # i /\ out[j].var = out[i].var

\* C21's case: the output has the entries of two heads, collected in
\* alternation, and a head that two parallel arcs of one variable reach.
C21_Witness ==
  /\ last_call.op = "ComputePrecedences"
  /\ Cardinality({output_precedences[i].var : i \in 1..Len(output_precedences)}) >= 2
  /\ \E i \in 1..Len(output_precedences) :
       \E a \in 1..Len(arcs_) :
         /\ a # output_precedences[i].arc_index
         /\ a \in Range(impacted_arcs_[arcs_[a].tail_var])
         /\ arcs_[a].tail_var = arcs_[output_precedences[i].arc_index].tail_var
         /\ arcs_[a].head_var = output_precedences[i].var
         /\ ArcOffset(Self, arcs_[a]) >= 0

\* ------------------------------------------- claims on the optional arcs
\* The trail and the bounds right before the i-th enqueue that the last
\* PropagateOptionalArcs made: the bounds do not move after Bellman-Ford.
BeforeEnqueue(i) == [Self EXCEPT !.trail = SubSeq(trail, 1, last_call.presence_enqueues[i].trail_size)]

NotTrue(s, arc) == {l \in Range(arc.presence_literals) : ~LiteralIsTrue(s, l)}

CannotHold(s, arc) ==
  LowerBound(s, arc.tail_var) + arc.offset
    + (IF arc.offset_var = kNoIntegerVariable THEN 0 ELSE LowerBound(s, arc.offset_var))
  > UpperBound(s, arc.head_var)

\* C22: every literal that a Propagate() puts on the trail for a pending
\* arc is the negation of a presence literal p of the arc that was, right
\* before, the only presence literal of the arc not true and unassigned,
\* with lower(tail) + offset (+ lower(offset_var)) > upper(head); its literal
\* reason is exactly the negations of the other presence literals of the
\* arc; and with no optional variable these are all the literals that the
\* call enqueues, so nothing is enqueued for an arc with two or more
\* presence literals not true.
C22_EnqueuedOnlyForLastLiteral ==
  (last_call.op = "Propagate" /\ check_failed = "")
    => /\ Len(last_call.enq_lits) = Len(last_call.presence_enqueues)
       /\ \A i \in 1..Len(last_call.presence_enqueues) :
            LET e == last_call.presence_enqueues[i]
                arc == potential_arcs_[e.arc]
                p == Negated(e.literal)
            IN /\ last_call.enq_lits[i].literal = e.literal
               /\ last_call.enq_lits[i].literal_reason = e.literal_reason
               /\ trail[e.trail_size + 1] = e.literal
               /\ NotTrue(BeforeEnqueue(i), arc) = {p}
               /\ ~LiteralIsAssigned(BeforeEnqueue(i), p)
               /\ CannotHold(Self, arc)
               /\ Len(e.literal_reason) = Len(arc.presence_literals) - 1
               /\ Range(e.literal_reason)
                    = {Negated(l) : l \in Range(arc.presence_literals) \ {p}}

\* C22's case: a Propagate() has enqueued the negation of the last literal
\* of an arc with two presence literals, while another pending arc that
\* cannot hold had two presence literals not true, one of them unassigned.
C22_Witness ==
  /\ last_call.op = "Propagate"
  /\ check_failed = ""
  /\ \E i \in 1..Len(last_call.presence_enqueues) :
       /\ Len(potential_arcs_[last_call.presence_enqueues[i].arc].presence_literals) = 2
       /\ last_call.presence_enqueues[i].literal_reason # << >>
       /\ \E a \in 1..Len(potential_arcs_) :
            /\ a # last_call.presence_enqueues[i].arc
            /\ CannotHold(Self, potential_arcs_[a])
            /\ Cardinality(NotTrue(BeforeEnqueue(i), potential_arcs_[a])) = 2
            /\ \E l \in NotTrue(BeforeEnqueue(i), potential_arcs_[a]) :
                 ~LiteralIsAssigned(BeforeEnqueue(i), l)
\* ------------------------------------ claims on the conditional relations
\* The arcs that an entry of key (tail, head) with (literal, offset) can
\* stand for: tail -> head, no offset variable, the literal alone.
ArcsOfEntry(key, entry) ==
  {a \in 1..Len(arcs_) :
     /\ arcs_[a].tail_var = key[1]
     /\ arcs_[a].head_var = key[2]
     /\ arcs_[a].offset_var = kNoIntegerVariable
     /\ arcs_[a].presence_literals = <<entry.literal>>
     /\ arcs_[a].offset = entry.offset}

\* Every entry stands for an active arc.
EntriesAreActive ==
  \A key \in DOMAIN conditional_relations_ :
    \E a \in ArcsOfEntry(key, conditional_relations_[key]) : a \in ActiveArcs

\* The arc a, deactivated, removes the entry e of key.
Removes(a, key, e) ==
  /\ arcs_[a].tail_var = key[1]
  /\ arcs_[a].head_var = key[2]
  /\ arcs_[a].offset_var = kNoIntegerVariable
  /\ arcs_[a].presence_literals = <<e.literal>>

\* C23: in every state each entry (tail, head) -> (l, k) of
\* conditional_relations_ stands for an active internal arc tail -> head
\* with no offset variable, the only presence literal l and the offset k;
\* an Untrail adds no entry, leaves no entry whose arc it deactivated, and
\* removes an entry only when it deactivates an arc of the same (tail, head)
\* guarded by the literal of the entry.
C23_EntriesFollowTheArcs ==
  [][/\ EntriesAreActive'
     /\ (last_call'.op = "Untrail" /\ check_failed' = "")
          => /\ DOMAIN conditional_relations_' \subseteq DOMAIN conditional_relations_
             /\ \A key \in DOMAIN conditional_relations_ :
                  LET e == conditional_relations_[key]
                      kept == /\ key \in DOMAIN conditional_relations_'
                              /\ conditional_relations_'[key] = e
                  IN kept <=> ~\E a \in Range(last_call'.deactivated) : Removes(a, key, e)
             /\ \A a \in Range(last_call'.deactivated) :
                  \A key \in DOMAIN conditional_relations_' :
                    a \notin ArcsOfEntry(key, conditional_relations_'[key])]_vars

\* C23's case: an Untrail has deactivated a singly guarded arc of fixed
\* offset whose (tail, head) still has the entry of an arc guarded by
\* another literal.
C23_Witness ==
  /\ last_call.op = "Untrail"
  /\ check_failed = ""
  /\ \E a \in Range(last_call.deactivated) :
       LET key == <<arcs_[a].tail_var, arcs_[a].head_var>> IN
       /\ Len(arcs_[a].presence_literals) = 1
       /\ arcs_[a].offset_var = kNoIntegerVariable
       /\ key \in DOMAIN conditional_relations_
       /\ conditional_relations_[key].literal # arcs_[a].presence_literals[1]
       /\ EntriesAreActive
\* ------------------------------------------- claims on the search strategy
\* The strategy that gave the last decision, and its variable.
DecidingStrategy == cp_model_proto.search_strategy[decision.strategy]
DecidedVar == PositiveRef(decision.candidate)

\* The value of the lower median of the values left to the variable: the
\* one with (n + 1) / 2 - 1 of the n values below it.
LowerMedian(var) ==
  CHOOSE m \in view[var].possible :
    Cardinality({x \in view[var].possible : x < m})
      = (Cardinality(view[var].possible) + 1) \div 2 - 1

Branchable(k) ==
  {PositiveRef(ref) : ref \in Range(cp_model_proto.search_strategy[k].variables)}
    \ {var \in ProtoVariables : IsFixed(view, var) \/ IsCurrentlyFree(view, var)}

\* C25: a call of the closure returns the null literal when every variable
\* of every strategy is fixed or currently free; otherwise it returns a
\* literal on a variable that is neither, among those of the first strategy
\* in declaration order that has one.
C25_DecisionOfFirstBranchableStrategy ==
  decision.called
    => LET with_one == {k \in 1..Len(cp_model_proto.search_strategy) : Branchable(k) # {}}
       IN IF with_one = {}
          THEN decision.literal = NullLiteral /\ decision.strategy = 0
          ELSE /\ decision.strategy = SetMin(with_one)
               /\ decision.literal # NullLiteral
               /\ DecidedVar \in Branchable(SetMin(with_one))
               /\ Concerns(decision.literal, view, DecidedVar)
               /\ \A var \in ProtoVariables \ {DecidedVar} :
                    ~Concerns(decision.literal, view, var)

\* C25's case: every variable of the first strategy is fixed, one by a
\* decision, and the closure has returned a decision of the second one.
C25_Witness ==
  /\ decision.called
  /\ Branchable(1) = {}
  /\ \E ref \in Range(cp_model_proto.search_strategy[1].variables) :
       /\ IsInteger(view, PositiveRef(ref))
       /\ ~IsCurrentlyFree(view, PositiveRef(ref))
  /\ decision.strategy = 2
  /\ decision.literal # NullLiteral
\* The positions of the k-th strategy whose variable is neither fixed nor free.
BranchablePositions(k) ==
  {p \in 1..Len(cp_model_proto.search_strategy[k].variables) :
     PositiveRef(cp_model_proto.search_strategy[k].variables[p]) \in Branchable(k)}

\* The score of the p-th variable of the k-th strategy: the coefficient and
\* the offset are those of the transformation of index p - 1, if any.
Score(k, p) ==
  LET strategy == cp_model_proto.search_strategy[k]
      ref == strategy.variables[p]
      var == PositiveRef(ref)
      of_p == {t \in Range(strategy.transformations) : t.index = p - 1}
      coeff == IF of_p = {} THEN 1 ELSE (CHOOSE t \in of_p : TRUE).positive_coeff
      offset == IF of_p = {} THEN 0 ELSE (CHOOSE t \in of_p : TRUE).offset
      lb == IF RefIsPositive(ref) THEN Min(view, var) ELSE -Max(view, var)
      ub == IF RefIsPositive(ref) THEN Max(view, var) ELSE -Min(view, var)
      selection == strategy.variable_selection_strategy
  IN CASE selection = "CHOOSE_FIRST" -> 0
       [] selection = "CHOOSE_LOWEST_MIN" -> coeff * lb + offset
       [] selection = "CHOOSE_HIGHEST_MAX" -> 0 - (coeff * ub + offset)
       [] selection = "CHOOSE_MIN_DOMAIN_SIZE" -> coeff * (ub - lb + 1)
       [] selection = "CHOOSE_MAX_DOMAIN_SIZE" -> 0 - coeff * (ub - lb + 1)

BestScore(k) == SetMin({Score(k, p) : p \in BranchablePositions(k)})

\* The positions of the deciding strategy that hold the chosen reference.
ChosenPositions ==
  {p \in BranchablePositions(decision.strategy) :
     DecidingStrategy.variables[p] = decision.candidate}

\* C26: without randomization the chosen variable is the earliest of the
\* list among those of the least score over the variables that are neither
\* fixed nor free; with randomization its score is at most the least score
\* plus the tolerance.
C26_ChosenMinimisesScore ==
  (decision.called /\ decision.strategy # 0)
    => LET k == decision.strategy
       IN IF parameters.randomize_search
          THEN \E p \in ChosenPositions :
                 Score(k, p) <= BestScore(k) + parameters.search_randomization_tolerance
          ELSE \E p \in ChosenPositions :
                 /\ Score(k, p) = BestScore(k)
                 /\ \A q \in BranchablePositions(k) : Score(k, q) = BestScore(k) => p <= q

\* C26's case: without randomization two variables that are neither fixed
\* nor free have the least score of a strategy that scores them with a
\* transformation, and the closure has chosen one.
C26_Witness ==
  /\ decision.called
  /\ decision.strategy = 1
  /\ ~parameters.randomize_search
  /\ DecidingStrategy.variable_selection_strategy # "CHOOSE_FIRST"
  /\ DecidingStrategy.transformations # << >>
  /\ Cardinality({p \in BranchablePositions(1) : Score(1, p) = BestScore(1)}) >= 2
\* The values a proto variable of the model can be given, and those at
\* which the returned literal is true.
ValueRange(var) == IF IsBoolean(view, var) THEN 0..1 ELSE 0..ValueSpan
TrueAt(var) == {x \in ValueRange(var) : IsTrueAt(decision.literal, view, var, x)}

\* The selection that applies to the chosen reference.
AppliedSelection ==
  LET declared == DecidingStrategy.domain_reduction_strategy
  IN IF RefIsPositive(decision.candidate) THEN declared
     ELSE CASE declared = "SELECT_MIN_VALUE" -> "SELECT_MAX_VALUE"
            [] declared = "SELECT_MAX_VALUE" -> "SELECT_MIN_VALUE"
            [] declared = "SELECT_LOWER_HALF" -> "SELECT_UPPER_HALF"
            [] declared = "SELECT_UPPER_HALF" -> "SELECT_LOWER_HALF"
            [] declared = "SELECT_MEDIAN_VALUE" -> "SELECT_MEDIAN_VALUE"

\* C27: the decision on the chosen variable v of bounds lb < ub is v <= lb
\* for SELECT_MIN_VALUE, v >= ub for SELECT_MAX_VALUE, v <= lb + (ub - lb) / 2
\* for SELECT_LOWER_HALF, v >= ub - (ub - lb) / 2 for SELECT_UPPER_HALF and
\* the median literal for SELECT_MEDIAN_VALUE, MIN and MAX and the two
\* halves being swapped for a negated reference; some value within the
\* bounds makes it true and some other makes it false.
C27_DecisionSplitsTheBounds ==
  (decision.called /\ decision.strategy # 0)
    => LET var == DecidedVar
           lb == Min(view, var)
           ub == Max(view, var)
       IN /\ lb < ub
          /\ Concerns(decision.literal, view, var)
          /\ CASE AppliedSelection = "SELECT_MIN_VALUE" ->
                   TrueAt(var) = {x \in ValueRange(var) : x <= lb}
               [] AppliedSelection = "SELECT_MAX_VALUE" ->
                   TrueAt(var) = {x \in ValueRange(var) : x >= ub}
               [] AppliedSelection = "SELECT_LOWER_HALF" ->
                   TrueAt(var) = {x \in ValueRange(var) : x <= lb + (ub - lb) \div 2}
               [] AppliedSelection = "SELECT_UPPER_HALF" ->
                   TrueAt(var) = {x \in ValueRange(var) : x >= ub - (ub - lb) \div 2}
               [] AppliedSelection = "SELECT_MEDIAN_VALUE" ->
                   TrueAt(var) = IF IsBoolean(view, var) THEN {0} ELSE {LowerMedian(var)}
          /\ \E x \in Values(view, var) : x \in TrueAt(var)
          /\ \E x \in Values(view, var) : x \notin TrueAt(var)

\* C27's case: the closure has chosen a negated reference to an integer
\* variable whose bounds earlier decisions have moved, under a strategy
\* that declares SELECT_LOWER_HALF.
C27_Witness ==
  /\ decision.called
  /\ decision.strategy = 1
  /\ ~RefIsPositive(decision.candidate)
  /\ IsInteger(view, DecidedVar)
  /\ DecidingStrategy.domain_reduction_strategy = "SELECT_LOWER_HALF"
  /\ Min(view, DecidedVar) > 1
  /\ Max(view, DecidedVar) - Min(view, DecidedVar) >= 2
  /\ TrueAt(DecidedVar) # {}
\* The last heuristic of the chain, and the kinds the chain is made of.
LastHeuristic == heuristics.chain[Len(heuristics.chain)]
ChainKinds == [i \in 1..Len(heuristics.chain) |-> heuristics.chain[i].kind]
ExpectedKinds ==
  (IF parameters.search_branching = "PARTIAL_FIXED_SEARCH" THEN << >>
   ELSE <<"ConstructUserSearchStrategy">>)
  \o (IF \E i \in 1..Len(cp_model_proto.constraints) :
            cp_model_proto.constraints[i] \in {"no_overlap", "cumulative"}
      THEN <<"SchedulingSearchHeuristic">> ELSE << >>)
  \o <<"FirstUnassignedVarAtItsMinHeuristic">>
MappedVariables ==
  SelectSeq(heuristics.variable_mapping, LAMBDA var : var # kNoIntegerVariable)

\* C28 as stated: with instantiate_all_variables the last heuristic is
\* first-unassigned-at-minimum and the objective variable is the first
\* variable of its decision list.
C28_ObjectiveIsFirstDecision ==
  (heuristics.called /\ parameters.instantiate_all_variables
     /\ heuristics.objective_var # kNoIntegerVariable)
    => /\ LastHeuristic.kind = "FirstUnassignedVarAtItsMinHeuristic"
       /\ LastHeuristic.decisions # << >>
       /\ LastHeuristic.decisions[1] = heuristics.objective_var

\* C28 as amended: with instantiate_all_variables the chain is the user
\* strategy unless PARTIAL_FIXED_SEARCH, then the scheduling heuristic iff
\* the model has a no-overlap or cumulative constraint, then
\* first-unassigned-at-minimum over the mapped integer variables in the
\* order of the mapping, the negation of the objective variable being
\* replaced by the objective variable.
C28_ObjectiveReplacesItsNegation ==
  (heuristics.called /\ parameters.instantiate_all_variables)
    => /\ ChainKinds = ExpectedKinds
       /\ Len(LastHeuristic.decisions) = Len(MappedVariables)
       /\ \A i \in 1..Len(MappedVariables) :
            LastHeuristic.decisions[i]
              = IF MappedVariables[i] = NegationOf(heuristics.objective_var)
                THEN heuristics.objective_var ELSE MappedVariables[i]

\* C28's case: the chain of a model with a scheduling constraint, built
\* with instantiate_all_variables for a mapping whose third variable is the
\* negation of the objective variable.
C28_Witness ==
  /\ heuristics.called
  /\ parameters.instantiate_all_variables
  /\ heuristics.objective_var = 3
  /\ heuristics.variable_mapping = <<0, kNoIntegerVariable, 2, 4>>
  /\ Len(heuristics.chain) = 3
  /\ LastHeuristic.decisions = <<0, 3, 4>>
\* The variants that are not the randomized ones of the padding, which are
\* named random_<index> and random_quick_restart_<index>.
PaddingNames ==
  {StrCat("random_", index) : index \in 1..Len(result.variants)}
    \cup {StrCat("random_quick_restart_", index) : index \in 1..Len(result.variants)}
NamedResult == SelectSeq(result.variants, LAMBDA params : params.name \notin PaddingNames)
HasSchedulingConstraint ==
  \E i \in 1..Len(cp_model_proto.constraints) :
    cp_model_proto.constraints[i] \in {"no_overlap", "cumulative"}

\* The example of C29: the subsolvers core, no_lp and fixed, given to a
\* base configuration of its own default search with a worker to run them,
\* on a model with no objective, no search strategy and no scheduling
\* constraint.
CoreNoLpFixedOnPlainModel ==
  /\ parameters.subsolvers = <<"core", "no_lp", "fixed">>
  /\ parameters.search_branching = "AUTOMATIC_SEARCH"
  /\ ~parameters.optimize_with_core
  /\ parameters.num_workers >= 1
  /\ ~cp_model_proto.has_objective
  /\ cp_model_proto.search_strategy = << >>
  /\ ~HasSchedulingConstraint

NumNamed == Len(NamedResult)

\* The variants after the named ones are randomized, of tolerance their
\* 1-based index in the padding, named random_<i> for an odd index and
\* random_quick_restart_<i> for an even one.
PaddingIsRandomized ==
  /\ \A p \in 1..NumNamed : result.variants[p].name \notin PaddingNames
  /\ \A i \in 1..(Len(result.variants) - NumNamed) :
       LET params == result.variants[NumNamed + i]
       IN /\ params.randomize_search
          /\ params.search_randomization_tolerance = i
          /\ params.name = IF i % 2 = 1 THEN StrCat("random_", i)
                           ELSE StrCat("random_quick_restart_", i)

\* The variant at the 0-based position idx has the seed of base_params
\* plus idx + 1.
SeedsFollowPositions ==
  \A p \in 1..Len(result.variants) :
    result.variants[p].random_seed = parameters.random_seed + (p - 1) + 1

\* C31 as stated: without an objective the result has exactly num_workers
\* variants, the named ones followed by the randomized ones of the padding,
\* each with the seed of its position.
C31_ExactlyNumWorkers ==
  (result.called /\ ~cp_model_proto.has_objective)
    => /\ Len(result.variants) = parameters.num_workers
       /\ PaddingIsRandomized
       /\ SeedsFollowPositions

\* The workers the variants are meant for: one less, but at least one, when
\* interleave_search is off and use_rins_lns or use_feasibility_pump is set.
PaddingTarget ==
  IF ~parameters.interleave_search
     /\ (parameters.use_rins_lns \/ parameters.use_feasibility_pump)
  THEN (IF parameters.num_workers - 1 > 1 THEN parameters.num_workers - 1 ELSE 1)
  ELSE parameters.num_workers

\* C31 as amended: without an objective the result has exactly
\* PaddingTarget variants when interleave_search is off, and num_workers or
\* the number of named variants, whichever is more, when it is on; the
\* named variants come first, followed by the randomized ones of the
\* padding, each variant with the seed of its position.
C31_ExactlyTheTarget ==
  (result.called /\ ~cp_model_proto.has_objective)
    => /\ Len(result.variants)
            = IF ~parameters.interleave_search \/ NumNamed <= parameters.num_workers
              THEN PaddingTarget ELSE NumNamed
       /\ PaddingIsRandomized
       /\ SeedsFollowPositions

\* C31's case: without an objective, one named variant has survived and two
\* randomized ones complete it for three workers.
C31_Witness ==
  /\ result.called
  /\ ~cp_model_proto.has_objective
  /\ ~parameters.use_rins_lns
  /\ ~parameters.use_feasibility_pump
  /\ parameters.num_workers = 3
  /\ NumNamed = 1
  /\ Len(result.variants) = 3
  /\ result.variants[3].name = "random_quick_restart_2"
\* ------------------------------------------- claims on the arc counters
\* The literals Propagate has consumed: those of the trail below
\* propagation_trail_index_.
ConsumedLiterals == {trail[p] : p \in 1..propagation_trail_index_}

\* C32: the count of every internal arc is the number of its presence
\* literals that Propagate has not consumed as true, and an arc in the
\* list of its tail has all its presence literals true on the trail, also
\* for an arc added above level 0 while one of its presence literals is
\* true and not consumed yet.
C32_CountIsUnconsumedLiterals ==
  check_failed = ""
    => \A a \in 1..Len(arcs_) :
         /\ arc_counts_[a]
              = Cardinality({k \in 1..Len(arcs_[a].presence_literals) :
                               arcs_[a].presence_literals[k] \notin ConsumedLiterals})
         /\ a \in Range(impacted_arcs_[arcs_[a].tail_var])
              => \A k \in 1..Len(arcs_[a].presence_literals) :
                   LiteralIsTrue(Self, arcs_[a].presence_literals[k])
\* The number of literals at the trail positions from + 1 .. to that watch
\* the arc a.
Decrements(a, tr, from, to) ==
  Cardinality({q \in (from + 1)..to : a \in Range(literal_to_new_impacted_arcs_[tr[q]])})

\* C33: when Propagate returns a conflict while it consumes the trail literal
\* l, propagation_trail_index_ is past l, every arc watched by a literal
\* consumed by the call, l included, had its count decremented and is
\* installed if the count reached 0; an Untrail that follows and moves the
\* index before l leaves arc_counts_ and impacted_arcs_ as they were when the
\* index was at that position.
C33_ConflictAfterFullFirstPass ==
  [][/\ (last_call'.op = "Propagate" /\ last_call'.consuming # 0 /\ check_failed' = "")
          => /\ ~last_call'.ret
             /\ propagation_trail_index_' = last_call'.consuming
             /\ propagation_trail_index_' > propagation_trail_index_
             /\ \A a \in 1..Len(arcs_) :
                  LET n == Decrements(a, trail', propagation_trail_index_,
                                      propagation_trail_index_')
                  IN /\ arc_counts_'[a] = arc_counts_[a] - n
                     /\ (n > 0 /\ arc_counts_'[a] = 0)
                          => a \in Range(impacted_arcs_'[arcs_[a].tail_var])
     /\ (/\ last_call'.op = "Untrail"
         /\ last_call'.after_consuming # 0
         /\ propagation_trail_index_' < last_call'.after_consuming
         /\ index_history[propagation_trail_index_'].valid)
          => /\ arc_counts_' = index_history[propagation_trail_index_'].arc_counts_
             /\ impacted_arcs_' = index_history[propagation_trail_index_'].impacted_arcs_]_vars

\* C33's case: an Untrail right after a Propagate whose conflict arose on the
\* first of two arcs watched by the consumed literal brought the index
\* before that literal and deactivated both arcs.
C33_Witness ==
  /\ last_call.op = "Untrail"
  /\ last_call.after_consuming # 0
  /\ propagation_trail_index_ < last_call.after_consuming
  /\ index_history[propagation_trail_index_].valid
  /\ Len(last_call.deactivated) >= 2
  /\ arc_counts_ = index_history[propagation_trail_index_].arc_counts_

\* C34: AddArc never trips its CHECK, at any decision level and in any
\* reachable state, also above level 0 with presence literals that are all
\* true.
C34_AddArcCheckNeverTrips ==
  check_failed # "AddArc: presence_literals.empty() || arc_counts_.back() > 0"

\* ----------------------------------------- claims on the pending arcs
\* The pending arc has exactly one presence literal that is not true, that
\* literal is unassigned, and the arc cannot hold within the bounds.
Refutable(s, arc) ==
  /\ Cardinality(NotTrue(s, arc)) = 1
  /\ \A l \in NotTrue(s, arc) : ~LiteralIsAssigned(s, l)
  /\ CannotHold(s, arc)

\* C36: after a Propagate() that returned true no pending arc has exactly one
\* unassigned presence literal, its other presence literals true and
\* lower(tail) + offset > upper(head), whether the last change was a bound
\* change or the assignment of the second-to-last presence literal.
C36_NoRefutableArcLeft ==
  (last_call.op = "Propagate" /\ last_call.ret /\ check_failed = "")
    => \A a \in 1..Len(potential_arcs_) : ~Refutable(Self, potential_arcs_[a])

\* The variables that are in modified_vars_ when a Propagate() that returns
\* true scans the optional arcs: those set before the call and those the call
\* pushed; s is the state before the call and c what the call recorded.
ModifiedAtScan(s, c) ==
  Range(s.modified_vars_) \cup {c.enq_bounds[i].var : i \in 1..Len(c.enq_bounds)}

\* The state when the scan of the optional arcs starts, from the state s the
\* call left and what the call recorded: the trail without the literals the
\* scan enqueued.
AtScan(s, c) ==
  IF c.presence_enqueues = << >> THEN s
  ELSE [s EXCEPT !.trail = SubSeq(s.trail, 1, c.presence_enqueues[1].trail_size)]

\* C36 as amended: after a Propagate() that returned true, a pending arc
\* listed in impacted_potential_arcs_ of a variable of modified_vars_ that had,
\* when the scan of the optional arcs started, exactly one unassigned presence
\* literal, the others true and lower(tail) + offset > upper(head) has that
\* literal assigned.
C36_NoRefutableArcOfModifiedVarLeft ==
  [][(last_call'.op = "Propagate" /\ last_call'.ret /\ check_failed' = "")
       => \A v \in ModifiedAtScan(Self, last_call') :
            \A a \in Range(impacted_potential_arcs_'[v]) :
              Refutable(AtScan(Self', last_call'), potential_arcs_'[a])
                => \A l \in NotTrue(AtScan(Self', last_call'), potential_arcs_'[a]) :
                     LiteralIsFalse(Self', l)]_vars

\* C36's case: a Propagate() that returned true enqueued the negation of the
\* last unassigned presence literal of a pending arc with two presence
\* literals.
C36_Witness ==
  /\ last_call.op = "Propagate"
  /\ last_call.ret
  /\ \E i \in 1..Len(last_call.presence_enqueues) :
       LET arc == potential_arcs_[last_call.presence_enqueues[i].arc]
       IN /\ Len(arc.presence_literals) = 2
          /\ Refutable(AtScan(Self, last_call), arc)
          /\ \A l \in NotTrue(AtScan(Self, last_call), arc) : LiteralIsFalse(Self, l)

\* ------------------------------------- claims on the built relations
\* The pair of the negated variables, reversed.
Mirrored(p) == <<NegationOf(p[2]), NegationOf(p[1])>>

\* C38: after Build on an acyclic set of arcs, all_relations_ is symmetric
\* under negation: (a, b) -> k is an entry if and only if
\* (neg(b), neg(a)) -> k is.
C38_RelationsAreMirrored ==
  (is_built_ /\ ~HasCycle)
    => \A p \in DOMAIN all_relations_ :
         /\ Mirrored(p) \in DOMAIN all_relations_
         /\ all_relations_[Mirrored(p)] = all_relations_[p]

\* C38's case: a built acyclic store holds a relation of positive offset
\* that no single arc gives, and the mirrored pair with the same offset.
C38_Witness ==
  /\ is_built_
  /\ ~HasCycle
  /\ \E p \in DOMAIN all_relations_ :
       /\ all_relations_[p] > 0
       /\ \A i \in 1..Len(graph_) : GraphArc(p[1], p[2]) # graph_[i]
       /\ Mirrored(p) # p
       /\ Mirrored(p) \in DOMAIN all_relations_
       /\ all_relations_[Mirrored(p)] = all_relations_[p]

\* ------------------------------------ claims on Bellman-Ford-Tarjan
\* C40: whenever BellmanFordTarjan has returned, with success, with a
\* conflict or after a forced-ignore inference, no arc is marked, no node has
\* a parent arc and no node can be skipped.
C40_NothingLeftAfterBellmanFord ==
  check_failed = ""
    => /\ \A a \in 1..Len(arcs_) : ~arcs_[a].is_marked
       /\ \A v \in DOMAIN bf_parent_arc_of_ : bf_parent_arc_of_[v] = kNoArcIndex
       /\ \A v \in DOMAIN bf_can_be_skipped_ : ~bf_can_be_skipped_[v]

\* C40's case: a Propagate() found a positive cycle, so that the subtree of a
\* node with a parent was disassembled, and nothing is left of it.
C40_Witness ==
  /\ last_call.op = "Propagate"
  /\ last_call.cycles # << >>
  /\ Len(last_call.enq_bounds) >= 2
  /\ \A a \in 1..Len(arcs_) : ~arcs_[a].is_marked
  /\ \A v \in DOMAIN bf_parent_arc_of_ : bf_parent_arc_of_[v] = kNoArcIndex
  /\ \A v \in DOMAIN bf_can_be_skipped_ : ~bf_can_be_skipped_[v]

\* The nodes from which the marked arcs of a step lead to the nodes of S.
RECURSIVE MarkedAncestors(_, _, _)
MarkedAncestors(step, S, rounds) ==
  IF rounds = 0 THEN S
  ELSE MarkedAncestors(step, S \cup {arcs_[a].tail_var : a \in {m \in step.marked :
                                                               arcs_[m].head_var \in S}},
                       rounds - 1)

C35_PropagateTerminates ==
  /\ [](CanTakeQueueTurn => QueueTurn(Resumed) # Resumed)
  /\ Running ~> (last_call.op = "Propagate" /\ (last_call.ret => bf_queue_ = << >>))

\* C35's case: a Propagate() has returned after several turns of the queue,
\* one of which found a positive cycle.
C35_Witness ==
  /\ last_call.op = "Propagate"
  /\ Len(last_call.bf_steps) >= 3
  /\ last_call.cycles # << >>

\* C37: for a clause of n >= 2 literals at level 0, a constraint that
\* AddGreaterThanAtLeastOneOfConstraintsFromClause adds is for a head with at
\* least 2 and at least n - 1 collected arcs (watched by a literal of the
\* clause, one presence literal, no offset variable) and with two different
\* selectors at least; its selectors, variables and offsets are the presence
\* literals, tails and offsets of these arcs, one per arc; its enforcements
\* are the negations of the literals of the clause that guard none of them,
\* one per literal.
CollectedArcs(clause, head_var) ==
  {arc_index \in UNION {Range(literal_to_new_impacted_arcs_[l]) : l \in Range(clause)} :
     /\ Len(arcs_[arc_index].presence_literals) = 1
     /\ arcs_[arc_index].offset_var = kNoIntegerVariable
     /\ arcs_[arc_index].head_var = head_var}
ConstraintIsOfTheClause(clause, c) ==
  LET collected == CollectedArcs(clause, c.head_var)
      guarding == {arcs_[arc_index].presence_literals[1] : arc_index \in collected}
      terms == {<<arcs_[arc_index].presence_literals[1], arcs_[arc_index].tail_var,
                  arcs_[arc_index].offset>> : arc_index \in collected}
      unguarded == {l \in Range(clause) : l \notin guarding}
  IN /\ Cardinality(collected) >= 2
     /\ Cardinality(collected) >= Len(clause) - 1
     /\ Cardinality(Range(c.selectors)) >= 2
     /\ Len(c.selectors) = Cardinality(collected)
     /\ Len(c.vars) = Len(c.selectors)
     /\ Len(c.offsets) = Len(c.selectors)
     /\ \A i \in 1..Len(c.selectors) : <<c.selectors[i], c.vars[i], c.offsets[i]>> \in terms
     /\ \A term \in terms :
          Cardinality({i \in 1..Len(c.selectors) :
                         <<c.selectors[i], c.vars[i], c.offsets[i]>> = term})
            = Cardinality({arc_index \in collected :
                             <<arcs_[arc_index].presence_literals[1], arcs_[arc_index].tail_var,
                               arcs_[arc_index].offset>> = term})
     /\ Range(c.enforcements) = {Negated(l) : l \in unguarded}
     /\ Len(c.enforcements) = Cardinality(unguarded)
C37_ConstraintsAreOfTheClause ==
  (/\ last_call.op = "AddGreaterThanAtLeastOneOfConstraintsFromClause"
   /\ Len(last_call.input.clause) >= 2
   /\ CurrentDecisionLevel = 0)
    => \A k \in 1..Len(last_call.added) :
         ConstraintIsOfTheClause(last_call.input.clause, last_call.added[k])

\* A clause of four literals has given a constraint with a selector twice
\* and two enforcements, and a clause has given two constraints.
C37_Witness ==
  /\ last_call.op = "AddGreaterThanAtLeastOneOfConstraintsFromClause"
  /\ CurrentDecisionLevel = 0
  /\ Len(last_call.input.clause) = 4
  /\ \E k \in 1..Len(last_call.added) :
       /\ Len(last_call.added[k].selectors) = 3
       /\ Cardinality(Range(last_call.added[k].selectors)) = 2
       /\ Len(last_call.added[k].enforcements) = 2

====
